---- MODULE Spec2Model ----
(***************************************************************************)
(* tree-shaker: pruning of a parsed JSON document by a set of JSONPath     *)
(* expressions.  The model follows the pipeline of the repository:         *)
(*   raw path strings -> parser.ParsePath -> buildTrie (insert, finalize)  *)
(*   -> walker.walk (include / exclude, epsilon closure) -> Shake.         *)
(* Go pointers to trie nodes are modelled by value (the compiled trie is   *)
(* never written after finalize); Go's nil interface value is the single   *)
(* value Nil, which is also what encoding/json decodes JSON null to.       *)
(***************************************************************************)
EXTENDS Integers, Sequences, FiniteSets, TLC

\* Let(x, F) is F(x): the value x is computed once and named by F's parameter,
\* as a Go local variable that holds the result of a call.
Let(x, F(_)) == F(x)

(***************************************************************************)
(* JSON value trees (the `any` values produced by encoding/json).          *)
(***************************************************************************)
\* Go's untyped nil: "no result" of the walker and the decoded JSON null.
Nil == [k |-> "nil"]

\* A string, number or boolean leaf; t is its JSON kind, v its payload.
Scalar(t, v) == [k |-> "scalar", t |-> t, v |-> v]

\* map[string]any: f is a function from the present keys to values.
Obj(f) == [k |-> "obj", f |-> f]

\* []any: e is the sequence of elements.
Arr(e) == [k |-> "arr", e |-> e]

EmptyFcn == [x \in {} |-> Nil]

IsObj(v) == v.k = "obj"

IsArr(v) == v.k = "arr"

(***************************************************************************)
(* Selectors (parser/selector.go).  An optional *int is <<>> or <<n>>.     *)
(***************************************************************************)
NameSelector(name) == [t |-> "name", Name |-> name]

IndexSelector(i) == [t |-> "index", Index |-> i]

WildcardSelector == [t |-> "wildcard"]

SliceSelector(start, end, step) == [t |-> "slice", Start |-> start, End |-> end, Step |-> step]

normalize(idx, arrLen) == IF idx < 0 THEN idx + arrLen ELSE idx

clamp(val, lo, hi) == IF val < lo THEN lo ELSE IF val > hi THEN hi ELSE val

\* bounds with a reversed slice stopping at index 0 when End is omitted.
boundsReverseStopsAtZero(s, arrLen, step) ==
    IF step > 0
    THEN LET start == IF Len(s.Start) > 0 THEN normalize(s.Start[1], arrLen) ELSE 0
             end   == IF Len(s.End) > 0 THEN normalize(s.End[1], arrLen) ELSE arrLen
         IN <<clamp(start, 0, arrLen), clamp(end, 0, arrLen)>>
    ELSE LET start == IF Len(s.Start) > 0 THEN normalize(s.Start[1], arrLen) ELSE arrLen - 1
             end   == IF Len(s.End) > 0 THEN normalize(s.End[1], arrLen) ELSE 0
         IN <<clamp(start, -1, arrLen - 1), clamp(end, -1, arrLen - 1)>>

\* SliceSelector.bounds: <<start, end>> with defaults resolved and clamped.
bounds(s, arrLen, step) ==
    IF step > 0
    THEN LET start == IF Len(s.Start) > 0 THEN normalize(s.Start[1], arrLen) ELSE 0
             end   == IF Len(s.End) > 0 THEN normalize(s.End[1], arrLen) ELSE arrLen
         IN <<clamp(start, 0, arrLen), clamp(end, 0, arrLen)>>
    ELSE LET start == IF Len(s.Start) > 0 THEN normalize(s.Start[1], arrLen) ELSE arrLen - 1
             end   == IF Len(s.End) > 0 THEN normalize(s.End[1], arrLen) ELSE -1
         IN <<clamp(start, -1, arrLen - 1), clamp(end, -1, arrLen - 1)>>

\* SliceSelector.Matches for an integer key idx (0-based).
SliceMatches(s, idx, arrLen) ==
    LET step == IF Len(s.Step) > 0 THEN s.Step[1] ELSE 1
    IN IF step = 0 THEN FALSE
       ELSE LET b == bounds(s, arrLen, step)
            IN IF step > 0
               THEN IF idx < b[1] \/ idx >= b[2] THEN FALSE
                    ELSE (idx - b[1]) % step = 0
               ELSE IF idx > b[1] \/ idx <= b[2] THEN FALSE
                    ELSE (b[1] - idx) % (-step) = 0

\* IndexSelector.Matches for an integer key idx (0-based).
IndexMatches(s, idx, arrLen) ==
    LET resolved == IF s.Index < 0 THEN arrLen + s.Index ELSE s.Index
    IN idx = resolved

intPtrEqual(a, b) ==
    IF Len(a) = 0 /\ Len(b) = 0 THEN TRUE
    ELSE IF Len(a) = 0 \/ Len(b) = 0 THEN FALSE
    ELSE a[1] = b[1]

\* sliceEqual comparing start and end only.
sliceEqualIgnoresStep(a, b) ==
    intPtrEqual(a.Start, b.Start) /\ intPtrEqual(a.End, b.End)

sliceEqual(a, b) ==
    intPtrEqual(a.Start, b.Start) /\ intPtrEqual(a.End, b.End) /\ intPtrEqual(a.Step, b.Step)

(***************************************************************************)
(* AST (parser/ast.go).                                                    *)
(***************************************************************************)
Segment(sels, desc) == [Selectors |-> sels, Descendant |-> desc]

WithoutDescendant(s) == [Selectors |-> s.Selectors, Descendant |-> FALSE]

(***************************************************************************)
(* Parser (parser/parser.go).  A Go string is a sequence of one-character  *)
(* strings; pos is the scanner's 0-based byte offset.  Every scan function *)
(* returns [err, pos, ...] with err = <<>> (nil) or <<e>> (a *ParseError). *)
(* The alphabet is ASCII, one byte per character.                          *)
(***************************************************************************)
MaxPathLength == 10000

ParseError(path, pos, msg) == [Path |-> path, Pos |-> pos, Message |-> msg]

Digits == {"0", "1", "2", "3", "4", "5", "6", "7", "8", "9"}

Letters ==
    {"a", "b", "c", "d", "e", "f", "g", "h", "i", "j", "k", "l", "m",
     "n", "o", "p", "q", "r", "s", "t", "u", "v", "w", "x", "y", "z",
     "A", "B", "C", "D", "E", "F", "G", "H", "I", "J", "K", "L", "M",
     "N", "O", "P", "Q", "R", "S", "T", "U", "V", "W", "X", "Y", "Z"}

\* int(b - '0') for a digit byte b.
DigitVal(c) ==
    CASE c = "0" -> 0 [] c = "1" -> 1 [] c = "2" -> 2 [] c = "3" -> 3 [] c = "4" -> 4
      [] c = "5" -> 5 [] c = "6" -> 6 [] c = "7" -> 7 [] c = "8" -> 8 [] c = "9" -> 9

\* s.src[pos]
At(src, pos) == src[pos + 1]

\* s.src[from:to]
Slice(src, from, to) == SubSeq(src, from + 1, to)

RECURSIVE skipSpaces(_, _)
\* scanner.skipSpaces: the position after the spaces at pos.
skipSpaces(src, pos) ==
    IF pos < Len(src) /\ At(src, pos) = " " THEN skipSpaces(src, pos + 1) ELSE pos

\* scanner.isNameStart
isNameStart(src, pos) ==
    IF pos >= Len(src) THEN FALSE
    ELSE At(src, pos) = "_" \/ At(src, pos) \in Letters

\* The bytes that continue a name in scanName.
IsNameByte(c) == c \in {"_", "-"} \/ c \in Letters \/ c \in Digits

\* The loop of scanName: the first position from pos on that holds no name
\* byte, the end of src when there is none.
scanNameEnd(src, pos) ==
    IF \A i \in pos..(Len(src) - 1) : IsNameByte(At(src, i)) THEN (IF pos < Len(src) THEN Len(src) ELSE pos)
    ELSE CHOOSE i \in pos..(Len(src) - 1) :
            ~IsNameByte(At(src, i)) /\ \A j \in pos..(i - 1) : IsNameByte(At(src, j))

\* scanner.scanName: [name, pos].
scanName(src, pos) ==
    Let(scanNameEnd(src, pos), LAMBDA end :
        [name |-> Slice(src, pos, end), pos |-> end])

\* The bits of a Go int on the 64-bit platforms.
IntSize == 64

\* An int in memory is a word of IntSize bits, held as limbs of 16 bits,
\* lowest first; sums that carry out of the highest limb wrap.
LimbBase == 2 ^ 16

ZeroWord == [i \in 1..(IntSize \div 16) |-> 0]

RECURSIVE mulAddLimbs(_, _, _, _)
\* w*10 + carry on the limbs of w from the i-th on, out the limbs below; the
\* carry out of the last limb is lost.
mulAddLimbs(w, i, carry, out) ==
    IF i > Len(w) THEN out
    ELSE Let(w[i] * 10 + carry, LAMBDA c :
             mulAddLimbs(w, i + 1, c \div LimbBase, Append(out, c % LimbBase)))

RECURSIVE negLimbs(_, _, _, _)
\* -w in two's complement: every limb inverted, and one added.
negLimbs(w, i, carry, out) ==
    IF i > Len(w) THEN out
    ELSE Let((LimbBase - 1 - w[i]) + carry, LAMBDA c :
             negLimbs(w, i + 1, c \div LimbBase, Append(out, c % LimbBase)))

\* The int a word holds: an integer where the word holds one between -2^30
\* and 2^30, the word itself (as [int64 |-> w]) for the ints beyond.
GoInt(w) ==
    IF (\A i \in 3..Len(w) : w[i] = 0) /\ w[2] < 2 ^ 14
    THEN w[1] + LimbBase * w[2]
    ELSE IF (\A i \in 3..Len(w) : w[i] = LimbBase - 1) /\ w[2] >= LimbBase - 2 ^ 14
    THEN -((LimbBase - 1 - w[1]) + LimbBase * (LimbBase - 1 - w[2]) + 1)
    ELSE [int64 |-> w]

RECURSIVE scanDigits(_, _, _)
\* The digit loop of scanInt: [n, pos], n the word that holds the int n.
scanDigits(src, pos, n) ==
    IF pos < Len(src) /\ At(src, pos) \in Digits
    THEN scanDigits(src, pos + 1, mulAddLimbs(n, 1, DigitVal(At(src, pos)), <<>>))
    ELSE [n |-> n, pos |-> pos]

\* scanner.scanInt: [err, n, pos].
scanInt(src, pos) ==
    LET neg == pos < Len(src) /\ At(src, pos) = "-"
        p1 == IF neg THEN pos + 1 ELSE pos
    IN IF p1 >= Len(src) \/ At(src, p1) \notin Digits
       THEN [err |-> <<ParseError(src, pos, "expected integer")>>, n |-> 0, pos |-> p1]
       ELSE Let(scanDigits(src, p1, ZeroWord), LAMBDA d :
                [err |-> <<>>,
                 n |-> GoInt(IF neg THEN negLimbs(d.n, 1, 1, <<>>) ELSE d.n),
                 pos |-> d.pos])

RECURSIVE unescape(_, _, _, _)
\* unescape: [err, s] for the content s of a quoted string starting at byte
\* pos of fullPath, from index i (0-based) of s on.  The control characters
\* produced by \n, \t and \r are the one-character strings "LF", "TAB", "CR".
unescape(s, fullPath, pos, i) ==
    IF i >= Len(s) THEN [err |-> <<>>, s |-> <<>>]
    ELSE IF At(s, i) = "\\"
    THEN IF i + 1 >= Len(s)
         THEN [err |-> <<ParseError(fullPath, pos + i + 1, "trailing backslash")>>, s |-> <<>>]
         ELSE LET c == At(s, i + 1)
                  out == CASE c \in {"\\", "'", "\""} -> <<c>>
                           [] c = "n" -> <<"LF">>
                           [] c = "t" -> <<"TAB">>
                           [] c = "r" -> <<"CR">>
                           [] OTHER -> <<>>
              IN IF c \notin {"\\", "'", "\"", "n", "t", "r"}
                 THEN [err |-> <<ParseError(fullPath, pos + i + 1, "invalid escape sequence")>>,
                       s |-> <<>>]
                 ELSE Let(unescape(s, fullPath, pos, i + 2), LAMBDA rest :
                          IF Len(rest.err) > 0 THEN rest
                          ELSE [err |-> <<>>, s |-> out \o rest.s])
    ELSE Let(unescape(s, fullPath, pos, i + 1), LAMBDA rest :
             IF Len(rest.err) > 0 THEN rest
             ELSE [err |-> <<>>, s |-> <<At(s, i)>> \o rest.s])

RECURSIVE scanStringLoop(_, _, _, _, _)
\* The loop of scanString: [err, name, pos].
scanStringLoop(src, start, pos, quote, hasEscape) ==
    IF pos >= Len(src)
    THEN [err |-> <<ParseError(src, start, "unclosed string")>>, name |-> <<>>, pos |-> pos]
    ELSE IF At(src, pos) = "\\" THEN scanStringLoop(src, start, pos + 2, quote, TRUE)
    ELSE IF At(src, pos) = quote
    THEN IF ~hasEscape
         THEN [err |-> <<>>, name |-> Slice(src, start + 1, pos), pos |-> pos + 1]
         ELSE Let(unescape(Slice(src, start + 1, pos), src, start + 1, 0), LAMBDA u :
                  [err |-> u.err, name |-> u.s, pos |-> pos + 1])
    ELSE scanStringLoop(src, start, pos + 1, quote, hasEscape)

\* scanner.scanString: [err, name, pos].
scanString(src, pos) == scanStringLoop(src, pos, pos + 1, At(src, pos), FALSE)

IsIntStart(src, pos) == pos < Len(src) /\ (At(src, pos) = "-" \/ At(src, pos) \in Digits)

\* scanner.parseSliceFrom: [err, sel, pos]; start is <<>> or <<n>>.
parseSliceFrom(src, pos, start) ==
    Let(skipSpaces(src, pos + 1), LAMBDA p1 :
    Let(IF IsIntStart(src, p1) THEN scanInt(src, p1)
        ELSE [err |-> <<>>, n |-> 0, pos |-> p1], LAMBDA e :
    Let(skipSpaces(src, e.pos), LAMBDA p2 :
    Let(p2 < Len(src) /\ At(src, p2) = ":", LAMBDA hasStep :
    Let(IF hasStep THEN skipSpaces(src, p2 + 1) ELSE p2, LAMBDA p3 :
    Let(IF hasStep /\ IsIntStart(src, p3) THEN scanInt(src, p3)
        ELSE [err |-> <<>>, n |-> 0, pos |-> p3], LAMBDA st :
        IF Len(e.err) > 0 THEN [err |-> e.err, sel |-> WildcardSelector, pos |-> e.pos]
        ELSE IF Len(st.err) > 0 THEN [err |-> st.err, sel |-> WildcardSelector, pos |-> st.pos]
        ELSE [err |-> <<>>,
              sel |-> SliceSelector(start,
                                    IF IsIntStart(src, p1) THEN <<e.n>> ELSE <<>>,
                                    IF hasStep /\ IsIntStart(src, p3) THEN <<st.n>> ELSE <<>>),
              pos |-> st.pos]))))))

\* scanner.parseNumberOrSlice: [err, sel, pos].
parseNumberOrSlice(src, pos) ==
    Let(scanInt(src, pos), LAMBDA n :
    Let(skipSpaces(src, n.pos), LAMBDA p1 :
        IF Len(n.err) > 0 THEN [err |-> n.err, sel |-> WildcardSelector, pos |-> n.pos]
        ELSE IF p1 < Len(src) /\ At(src, p1) = ":" THEN parseSliceFrom(src, p1, <<n.n>>)
        ELSE [err |-> <<>>, sel |-> IndexSelector(n.n), pos |-> p1]))

\* scanner.parseBracketSelector: [err, sel, pos].
parseBracketSelector(src, pos) ==
    IF pos >= Len(src)
    THEN [err |-> <<ParseError(src, pos, "unexpected end in bracket")>>,
          sel |-> WildcardSelector, pos |-> pos]
    ELSE IF At(src, pos) = "*" THEN [err |-> <<>>, sel |-> WildcardSelector, pos |-> pos + 1]
    ELSE IF At(src, pos) \in {"'", "\""}
    THEN Let(scanString(src, pos), LAMBDA r :
             [err |-> r.err, sel |-> NameSelector(r.name), pos |-> r.pos])
    ELSE IF At(src, pos) = "-" \/ At(src, pos) \in Digits THEN parseNumberOrSlice(src, pos)
    ELSE IF At(src, pos) = ":" THEN parseSliceFrom(src, pos, <<>>)
    ELSE [err |-> <<ParseError(src, pos, "expected number, string, or '*'")>>,
          sel |-> WildcardSelector, pos |-> pos]

RECURSIVE parseBracketLoop(_, _, _)
\* The loop of parseBracket with the selectors read so far: [err, sels, pos].
parseBracketLoop(src, pos, selectors) ==
    Let(parseBracketSelector(src, skipSpaces(src, pos)), LAMBDA r :
    Let(skipSpaces(src, r.pos), LAMBDA p1 :
        IF Len(r.err) > 0 THEN [err |-> r.err, sels |-> <<>>, pos |-> r.pos]
        ELSE IF p1 >= Len(src)
        THEN [err |-> <<ParseError(src, p1, "unclosed '['")>>, sels |-> <<>>, pos |-> p1]
        ELSE IF At(src, p1) = "]"
        THEN [err |-> <<>>, sels |-> Append(selectors, r.sel), pos |-> p1 + 1]
        ELSE IF At(src, p1) = ","
        THEN parseBracketLoop(src, p1 + 1, Append(selectors, r.sel))
        ELSE [err |-> <<ParseError(src, p1, "expected ',' or ']'")>>, sels |-> <<>>, pos |-> p1]))

\* scanner.parseBracket, at the '[': [err, sels, pos].
parseBracket(src, pos) == parseBracketLoop(src, pos + 1, <<>>)

NoSegment == [Selectors |-> <<>>, Descendant |-> FALSE]

\* scanner.parseAfterDescendant: [err, seg, pos].
parseAfterDescendant(src, pos) ==
    IF pos >= Len(src)
    THEN [err |-> <<ParseError(src, pos, "unexpected end after '..'")>>,
          seg |-> NoSegment, pos |-> pos]
    ELSE IF At(src, pos) = "["
    THEN Let(parseBracket(src, pos), LAMBDA b :
             [err |-> b.err, seg |-> Segment(b.sels, TRUE), pos |-> b.pos])
    ELSE IF At(src, pos) = "*"
    THEN [err |-> <<>>, seg |-> Segment(<<WildcardSelector>>, TRUE), pos |-> pos + 1]
    ELSE IF isNameStart(src, pos)
    THEN Let(scanName(src, pos), LAMBDA n :
             [err |-> <<>>, seg |-> Segment(<<NameSelector(n.name)>>, TRUE), pos |-> n.pos])
    ELSE [err |-> <<ParseError(src, pos, "expected name, '*', or '[' after '..'")>>,
          seg |-> NoSegment, pos |-> pos]

\* scanner.parseAfterDot: [err, seg, pos].
parseAfterDot(src, pos) ==
    IF pos >= Len(src)
    THEN [err |-> <<ParseError(src, pos, "unexpected end after '.'")>>,
          seg |-> NoSegment, pos |-> pos]
    ELSE IF At(src, pos) = "*"
    THEN [err |-> <<>>, seg |-> Segment(<<WildcardSelector>>, FALSE), pos |-> pos + 1]
    ELSE IF isNameStart(src, pos)
    THEN Let(scanName(src, pos), LAMBDA n :
             [err |-> <<>>, seg |-> Segment(<<NameSelector(n.name)>>, FALSE), pos |-> n.pos])
    ELSE [err |-> <<ParseError(src, pos, "expected name or '*' after '.'")>>,
          seg |-> NoSegment, pos |-> pos]

\* scanner.parseSegment: [err, seg, pos].
parseSegment(src, pos) ==
    IF At(src, pos) = "."
    THEN IF pos + 1 < Len(src) /\ At(src, pos + 1) = "."
         THEN parseAfterDescendant(src, pos + 2)
         ELSE parseAfterDot(src, pos + 1)
    ELSE IF At(src, pos) = "["
    THEN Let(parseBracket(src, pos), LAMBDA b :
             [err |-> b.err, seg |-> Segment(b.sels, FALSE), pos |-> b.pos])
    ELSE [err |-> <<ParseError(src, pos, "expected '.', '..', or '['")>>,
          seg |-> NoSegment, pos |-> pos]

RECURSIVE parseLoop(_, _, _)
\* The segment loop of scanner.parse: [err, segments].
parseLoop(src, pos, segments) ==
    IF pos < Len(src)
    THEN Let(parseSegment(src, pos), LAMBDA r :
             IF Len(r.err) > 0 THEN [err |-> r.err, segments |-> <<>>]
             ELSE parseLoop(src, r.pos, Append(segments, r.seg)))
    ELSE IF Len(segments) = 0
    THEN [err |-> <<ParseError(src, pos, "empty path")>>, segments |-> <<>>]
    ELSE [err |-> <<>>, segments |-> segments]

\* scanner.parse returning no segments and no error where nothing follows
\* the optional "$".
parseAllowsNoSegment(src) ==
    Let(parseLoop(src, IF 0 < Len(src) /\ At(src, 0) = "$" THEN 1 ELSE 0, <<>>), LAMBDA r :
        IF Len(r.err) > 0 /\ r.err[1].Message = "empty path"
        THEN [err |-> <<>>, segments |-> <<>>]
        ELSE r)

\* scanner.parse: optional "$", then one or more segments.
parse(src) ==
    parseLoop(src, IF 0 < Len(src) /\ At(src, 0) = "$" THEN 1 ELSE 0, <<>>)

\* ParsePath taking the length 0 for a limit like any other, where 0 stands
\* for no limit.
ParsePathZeroIsLimit(raw, maxLength) ==
    IF Len(raw) > maxLength
    THEN [err |-> <<ParseError(raw, 0, "path exceeds maximum length")>>,
          path |-> [Segments |-> <<>>, Raw |-> raw]]
    ELSE Let(parse(raw), LAMBDA r :
             [err |-> r.err, path |-> [Segments |-> r.segments, Raw |-> raw]])

\* ParsePath scanning the path before it looks at its length, so that a
\* path both malformed and too long is reported as malformed.
ParsePathScansFirst(raw, maxLength) ==
    Let(parse(raw), LAMBDA r :
        IF Len(r.err) > 0
        THEN [err |-> r.err, path |-> [Segments |-> r.segments, Raw |-> raw]]
        ELSE IF maxLength > 0 /\ Len(raw) > maxLength
        THEN [err |-> <<ParseError(raw, 0, "path exceeds maximum length")>>,
              path |-> [Segments |-> <<>>, Raw |-> raw]]
        ELSE [err |-> <<>>, path |-> [Segments |-> r.segments, Raw |-> raw]])

\* ParsePath with WithMaxLength(maxLength): [err, path].
ParsePath(raw, maxLength) ==
    IF maxLength > 0 /\ Len(raw) > maxLength
    THEN [err |-> <<ParseError(raw, 0, "path exceeds maximum length")>>,
          path |-> [Segments |-> <<>>, Raw |-> raw]]
    ELSE Let(parse(raw), LAMBDA r :
             [err |-> r.err, path |-> [Segments |-> r.segments, Raw |-> raw]])

(***************************************************************************)
(* Trie / NFA (trie.go).  A *trieNode is a record; the nil pointer is      *)
(* NoNode.  names and indexes are functions on the keys present; a nil map *)
(* and an empty map are both the empty function (the code reads them the   *)
(* same way).  namesMerged is <<>> (nil) or <<m>> with m the cache map.    *)
(***************************************************************************)
NoNode == [nil |-> TRUE]

newTrieNode ==
    [nil |-> FALSE, names |-> EmptyFcn, indexes |-> EmptyFcn, wildcard |-> NoNode,
     slices |-> <<>>, epsilon |-> NoNode, accepting |-> FALSE,
     namesMerged |-> <<>>, finalized |-> FALSE]

\* m[k] = v added to (or replaced in) a Go map.
MapPut(m, k, v) == [x \in (DOMAIN m) \cup {k} |-> IF x = k THEN v ELSE m[x]]

\* Index (1-based) of the first slice child whose selector equals s, or 0.
SliceIndex(n, s) ==
    LET hits == {i \in 1..Len(n.slices) : sliceEqual(n.slices[i].sel, s)}
    IN IF hits = {} THEN 0 ELSE CHOOSE i \in hits : \A j \in hits : i <= j

\* getOrCreateChild: the child reached from n by sel, a new node when absent.
getOrCreateChild(n, sel) ==
    CASE sel.t = "name" ->
            IF sel.Name \in DOMAIN n.names THEN n.names[sel.Name] ELSE newTrieNode
      [] sel.t = "index" ->
            IF sel.Index \in DOMAIN n.indexes THEN n.indexes[sel.Index] ELSE newTrieNode
      [] sel.t = "wildcard" ->
            IF n.wildcard.nil THEN newTrieNode ELSE n.wildcard
      [] sel.t = "slice" ->
            IF SliceIndex(n, sel) = 0 THEN newTrieNode ELSE n.slices[SliceIndex(n, sel)].node

\* The parent after getOrCreateChild(n, sel) and the writes made through the
\* returned pointer: the edge sel of n leads to child.
withChild(n, sel, child) ==
    CASE sel.t = "name" -> [n EXCEPT !.names = MapPut(n.names, sel.Name, child)]
      [] sel.t = "index" -> [n EXCEPT !.indexes = MapPut(n.indexes, sel.Index, child)]
      [] sel.t = "wildcard" -> [n EXCEPT !.wildcard = child]
      [] sel.t = "slice" ->
            IF SliceIndex(n, sel) = 0
            THEN [n EXCEPT !.slices = Append(n.slices, [sel |-> sel, node |-> child])]
            ELSE [n EXCEPT !.slices[SliceIndex(n, sel)].node = child]

RECURSIVE insert(_, _, _)
RECURSIVE insertSelectors(_, _, _, _, _)

\* The loop of insert over seg.Selectors, from selector i on.
insertSelectors(n, sels, i, segments, segIdx) ==
    IF i > Len(sels) THEN n
    ELSE LET child == insert(getOrCreateChild(n, sels[i]), segments, segIdx + 1)
         IN insertSelectors(withChild(n, sels[i], child), sels, i + 1, segments, segIdx)

\* insert creating a new epsilon child at every descendant segment.
insertReplacesEpsilon(n, segments, segIdx) ==
    IF segIdx > Len(segments) THEN [n EXCEPT !.accepting = TRUE]
    ELSE LET seg == segments[segIdx]
         IN IF seg.Descendant
            THEN LET remaining == <<WithoutDescendant(seg)>>
                                    \o SubSeq(segments, segIdx + 1, Len(segments))
                 IN [n EXCEPT !.epsilon = insert(newTrieNode, remaining, 1)]
            ELSE insertSelectors(n, seg.Selectors, 1, segments, segIdx)

\* trieNode.insert; segIdx is 1-based (Go's segIdx + 1).
insert(n, segments, segIdx) ==
    IF segIdx > Len(segments) THEN [n EXCEPT !.accepting = TRUE]
    ELSE LET seg == segments[segIdx]
         IN IF seg.Descendant
            THEN LET eps0 == IF n.epsilon.nil THEN newTrieNode ELSE n.epsilon
                     remaining == <<WithoutDescendant(seg)>>
                                    \o SubSeq(segments, segIdx + 1, Len(segments))
                 IN [n EXCEPT !.epsilon = insert(eps0, remaining, 1)]
            ELSE insertSelectors(n, seg.Selectors, 1, segments, segIdx)

RECURSIVE mergeNodes(_)
RECURSIVE mergeInto(_, _)

\* The loop body of mergeNodes keeping the child merged already has for a
\* key, an index, the wildcard or the descent, where the code merges the two.
mergeIntoKeepsExisting(merged, node) ==
    [merged EXCEPT
        !.accepting = merged.accepting \/ node.accepting,
        !.names = [k \in (DOMAIN merged.names) \cup (DOMAIN node.names) |->
                     IF k \in DOMAIN merged.names THEN merged.names[k] ELSE node.names[k]],
        !.indexes = [k \in (DOMAIN merged.indexes) \cup (DOMAIN node.indexes) |->
                       IF k \in DOMAIN merged.indexes THEN merged.indexes[k]
                       ELSE node.indexes[k]],
        !.wildcard = IF merged.wildcard.nil THEN node.wildcard ELSE merged.wildcard,
        !.slices = merged.slices \o node.slices,
        !.epsilon = IF merged.epsilon.nil THEN node.epsilon ELSE merged.epsilon]

\* One iteration of the loop of mergeNodes: node folded into merged.  The
\* names and indexes loops visit distinct keys, so their order is immaterial.
mergeInto(merged, node) ==
    LET nm == [k \in (DOMAIN merged.names) \cup (DOMAIN node.names) |->
                 IF k \in DOMAIN merged.names /\ k \in DOMAIN node.names
                 THEN mergeNodes(<<merged.names[k], node.names[k]>>)
                 ELSE IF k \in DOMAIN node.names THEN node.names[k] ELSE merged.names[k]]
        ix == [k \in (DOMAIN merged.indexes) \cup (DOMAIN node.indexes) |->
                 IF k \in DOMAIN merged.indexes /\ k \in DOMAIN node.indexes
                 THEN mergeNodes(<<merged.indexes[k], node.indexes[k]>>)
                 ELSE IF k \in DOMAIN node.indexes THEN node.indexes[k] ELSE merged.indexes[k]]
        wc == IF node.wildcard.nil THEN merged.wildcard
              ELSE IF ~merged.wildcard.nil
                   THEN mergeNodes(<<merged.wildcard, node.wildcard>>)
                   ELSE node.wildcard
        ep == IF node.epsilon.nil THEN merged.epsilon
              ELSE IF ~merged.epsilon.nil
                   THEN mergeNodes(<<merged.epsilon, node.epsilon>>)
                   ELSE node.epsilon
    IN [merged EXCEPT !.accepting = merged.accepting \/ node.accepting,
                      !.names = nm, !.indexes = ix, !.wildcard = wc,
                      !.slices = merged.slices \o node.slices, !.epsilon = ep]

RECURSIVE mergeFold(_, _, _)
mergeFold(merged, nodes, i) ==
    IF i > Len(nodes) THEN merged
    ELSE mergeFold(mergeInto(merged, nodes[i]), nodes, i + 1)

\* mergeNodes: subset construction over a list of states.
mergeNodes(nodes) ==
    IF Len(nodes) = 0 THEN NoNode
    ELSE IF Len(nodes) = 1 THEN nodes[1]
    ELSE mergeFold(newTrieNode, nodes, 1)

mergePair(a, b) ==
    IF a.nil THEN b
    ELSE IF b.nil THEN a
    ELSE mergeNodes(<<a, b>>)

RECURSIVE finalize(_)
\* finalize caching the named child alone under each key, without the
\* wildcard child merged into it.
finalizeCachesNamedChild(n) ==
    IF n.finalized THEN n
    ELSE Let([k \in DOMAIN n.names |-> finalize(n.names[k])], LAMBDA nm :
         Let(IF n.wildcard.nil THEN NoNode ELSE finalize(n.wildcard), LAMBDA wc :
             [n EXCEPT !.finalized = TRUE, !.names = nm,
                       !.indexes = [k \in DOMAIN n.indexes |-> finalize(n.indexes[k])],
                       !.wildcard = wc,
                       !.slices = [i \in 1..Len(n.slices) |->
                                     [sel |-> n.slices[i].sel,
                                      node |-> finalize(n.slices[i].node)]],
                       !.epsilon = IF n.epsilon.nil THEN NoNode ELSE finalize(n.epsilon),
                       !.namesMerged = IF DOMAIN nm # {} /\ ~wc.nil THEN <<nm>> ELSE <<>>]))

\* trieNode.finalize, post-order; returns the finalized node.
finalize(n) ==
    IF n.finalized THEN n
    ELSE Let([k \in DOMAIN n.names |-> finalize(n.names[k])], LAMBDA nm :
         Let(IF n.wildcard.nil THEN NoNode ELSE finalize(n.wildcard), LAMBDA wc :
             [n EXCEPT !.finalized = TRUE, !.names = nm,
                       !.indexes = [k \in DOMAIN n.indexes |-> finalize(n.indexes[k])],
                       !.wildcard = wc,
                       !.slices = [i \in 1..Len(n.slices) |->
                                     [sel |-> n.slices[i].sel,
                                      node |-> finalize(n.slices[i].node)]],
                       !.epsilon = IF n.epsilon.nil THEN NoNode ELSE finalize(n.epsilon),
                       !.namesMerged = IF DOMAIN nm # {} /\ ~wc.nil
                                       THEN <<[k \in DOMAIN nm |-> mergeNodes(<<nm[k], wc>>)]>>
                                       ELSE <<>>]))

RECURSIVE insertRange(_, _, _, _)
\* The loop of buildTrie over paths[lo..hi], in order; the range is halved so
\* that the evaluation nests only as deep as the logarithm of its length.
\* The root after the first half is looked at (it is never nil) before the
\* second half starts, which makes it a computed value by then.
insertRange(root, paths, lo, hi) ==
    IF lo > hi THEN root
    ELSE IF lo = hi THEN insert(root, paths[lo].Segments, 1)
    ELSE Let(insertRange(root, paths, lo, (lo + hi) \div 2), LAMBDA half :
             IF half.nil THEN half
             ELSE insertRange(half, paths, (lo + hi) \div 2 + 1, hi))

\* The loop of buildTrie from path i on.
insertPaths(root, paths, i) == insertRange(root, paths, i, Len(paths))

\* buildTrie (trie.go): insert every path, then finalize.
buildTrie(paths) == finalize(insertPaths(newTrieNode, paths, 1))

\* trieNode.match: next state for an object key.
match(n, key) ==
    IF Len(n.namesMerged) > 0
    THEN IF key \in DOMAIN n.namesMerged[1] THEN n.namesMerged[1][key] ELSE n.wildcard
    ELSE LET named == IF key \in DOMAIN n.names THEN n.names[key] ELSE NoNode
         IN IF n.wildcard.nil THEN named
            ELSE IF named.nil THEN n.wildcard
            ELSE mergeNodes(<<named, n.wildcard>>)

\* The slice children of n, from position i on, whose selector matches idx.
RECURSIVE sliceMatches(_, _, _, _)
sliceMatches(n, i, idx, arrLen) ==
    IF i > Len(n.slices) THEN <<>>
    ELSE (IF SliceMatches(n.slices[i].sel, idx, arrLen) THEN <<n.slices[i].node>> ELSE <<>>)
           \o sliceMatches(n, i + 1, idx, arrLen)

\* matchIndex with the wildcard child left out for the first element
\* (idx > 0 where every index is meant).
matchIndexWildcardSkipsFirst(n, idx, arrLen) ==
    LET negIdx == idx - arrLen
        wild == IF idx > 0 THEN n.wildcard ELSE NoNode
    IN IF wild.nil /\ Len(n.slices) = 0
       THEN IF DOMAIN n.indexes = {} THEN NoNode
            ELSE LET child == IF idx \in DOMAIN n.indexes THEN n.indexes[idx] ELSE NoNode
                     negChild == IF negIdx \in DOMAIN n.indexes THEN n.indexes[negIdx] ELSE NoNode
                 IN IF negIdx # idx /\ ~negChild.nil
                    THEN IF child.nil THEN negChild ELSE mergeNodes(<<child, negChild>>)
                    ELSE child
       ELSE LET m1 == IF idx \in DOMAIN n.indexes THEN <<n.indexes[idx]>> ELSE <<>>
                m2 == IF negIdx # idx /\ negIdx \in DOMAIN n.indexes
                      THEN <<n.indexes[negIdx]>> ELSE <<>>
                m3 == IF ~wild.nil THEN <<wild>> ELSE <<>>
            IN mergeNodes(m1 \o m2 \o m3 \o sliceMatches(n, 1, idx, arrLen))

\* matchIndex whose fast path looks the index up as written only (no
\* negative form).
matchIndexNoNegativeForm(n, idx, arrLen) ==
    LET negIdx == idx - arrLen
    IN IF n.wildcard.nil /\ Len(n.slices) = 0
       THEN IF idx \in DOMAIN n.indexes THEN n.indexes[idx] ELSE NoNode
       ELSE LET m1 == IF idx \in DOMAIN n.indexes THEN <<n.indexes[idx]>> ELSE <<>>
                m2 == IF negIdx # idx /\ negIdx \in DOMAIN n.indexes
                      THEN <<n.indexes[negIdx]>> ELSE <<>>
                m3 == IF ~n.wildcard.nil THEN <<n.wildcard>> ELSE <<>>
            IN mergeNodes(m1 \o m2 \o m3 \o sliceMatches(n, 1, idx, arrLen))

\* trieNode.matchIndex: next state for array index idx of an array of arrLen.
matchIndex(n, idx, arrLen) ==
    LET negIdx == idx - arrLen
    IN IF n.wildcard.nil /\ Len(n.slices) = 0
       THEN IF DOMAIN n.indexes = {} THEN NoNode
            ELSE LET child == IF idx \in DOMAIN n.indexes THEN n.indexes[idx] ELSE NoNode
                     negChild == IF negIdx \in DOMAIN n.indexes THEN n.indexes[negIdx] ELSE NoNode
                 IN IF negIdx # idx /\ ~negChild.nil
                    THEN IF child.nil THEN negChild ELSE mergeNodes(<<child, negChild>>)
                    ELSE child
       ELSE LET m1 == IF idx \in DOMAIN n.indexes THEN <<n.indexes[idx]>> ELSE <<>>
                m2 == IF negIdx # idx /\ negIdx \in DOMAIN n.indexes
                      THEN <<n.indexes[negIdx]>> ELSE <<>>
                m3 == IF ~n.wildcard.nil THEN <<n.wildcard>> ELSE <<>>
            IN mergeNodes(m1 \o m2 \o m3 \o sliceMatches(n, 1, idx, arrLen))

(***************************************************************************)
(* Walker (walker.go).  Every procedure returns (any, error); the model    *)
(* returns [v, errs] where errs is the set of DepthErrors the call can     *)
(* return: empty on success.  Ranging over a Go map visits the keys in an  *)
(* unspecified order and returns at the first failing key, so a walked     *)
(* object can fail with the error of any of its failing keys; an array is  *)
(* visited in index order and fails with the error of its first failing    *)
(* element.  A failing call returns the value nil.                         *)
(***************************************************************************)
MaxDepth == 1000

\* DepthError with its two fields filled the wrong way round.
DepthErrorSwapped(depth, maxDepth) == [Depth |-> maxDepth, MaxDepth |-> depth]

\* &DepthError{Depth: depth, MaxDepth: w.maxDepth}
DepthError(depth, maxDepth) == [Depth |-> depth, MaxDepth |-> maxDepth]

Ok(v) == [v |-> v, errs |-> {}]

Fail(errs) == [v |-> Nil, errs |-> errs]

newWalker(include, maxDepth) == [include |-> include, maxDepth |-> maxDepth]

RECURSIVE mergeValuesEpsilonWins(_, _)
\* mergeValues preferring b (the epsilon match) where the values are not both
\* objects.
mergeValuesEpsilonWins(a, b) ==
    IF a = Nil THEN b
    ELSE IF b = Nil THEN a
    ELSE IF IsObj(a) /\ IsObj(b)
         THEN Obj([k \in (DOMAIN a.f) \cup (DOMAIN b.f) |->
                     IF k \in DOMAIN a.f /\ k \in DOMAIN b.f
                     THEN mergeValuesEpsilonWins(a.f[k], b.f[k])
                     ELSE IF k \in DOMAIN b.f THEN b.f[k] ELSE a.f[k]])
         ELSE b

RECURSIVE mergeValues(_, _)
\* mergeValues: object union, otherwise a (the direct match) wins.
mergeValues(a, b) ==
    IF a = Nil THEN b
    ELSE IF b = Nil THEN a
    ELSE IF IsObj(a) /\ IsObj(b)
         THEN Obj([k \in (DOMAIN a.f) \cup (DOMAIN b.f) |->
                     IF k \in DOMAIN a.f /\ k \in DOMAIN b.f THEN mergeValues(a.f[k], b.f[k])
                     ELSE IF k \in DOMAIN b.f THEN b.f[k] ELSE a.f[k]])
         ELSE a

\* A loop entry: the result r of one key or element, with drop = TRUE where
\* the loop adds nothing to its result for it.
Entry(r, drop) == [v |-> r.v, errs |-> r.errs, drop |-> r.errs = {} /\ drop]

\* The entry of a loop that keeps a result only `if r != nil`.
KeptEntry(r) == Entry(r, r.v = Nil)

\* The loop over a Go map returning, beside the error of a failing key, the
\* map built from the other keys.
ObjResultKeepsPartial(ents) ==
    LET errs == UNION {e[2].errs : e \in ents}
        kept == {e \in ents : ~e[2].drop /\ e[2].errs = {}}
    IN [v |-> Obj([key \in {e[1] : e \in kept} |-> (CHOOSE e \in kept : e[1] = key)[2].v]),
        errs |-> errs]

\* The entries <<key, entry>> of a loop over a Go map put together: the error
\* of any failing key, else the map of the keys not dropped.
ObjResult(ents) ==
    LET errs == UNION {e[2].errs : e \in ents}
        kept == {e \in ents : ~e[2].drop}
    IN IF errs # {} THEN Fail(errs)
       ELSE Ok(Obj([key \in {e[1] : e \in kept} |-> (CHOOSE e \in kept : e[1] = key)[2].v]))

RECURSIVE ArrCollect(_, _, _)
\* The entries <<i, entry>> of a loop over a slice appended in index order
\* from position i on: the loop returns at the first failing element.
ArrCollect(ents, i, n) ==
    IF i > n THEN Ok(<<>>)
    ELSE LET r == (CHOOSE e \in ents : e[1] = i)[2]
         IN IF r.errs # {} THEN Fail(r.errs)
            ELSE Let(ArrCollect(ents, i + 1, n), LAMBDA rest :
                     IF rest.errs # {} THEN rest
                     ELSE IF r.drop THEN rest ELSE Ok(<<r.v>> \o rest.v))

RECURSIVE walk(_, _, _, _)
RECURSIVE walkObject(_, _, _, _)
RECURSIVE walkArray(_, _, _, _)
RECURSIVE walkSearchEpsilon(_, _, _, _)
RECURSIVE walkFilterEpsilon(_, _, _, _)

\* The state walkObject reaches for key: the direct match merged with the
\* epsilon child's match.
keyState(trie, key) ==
    IF ~trie.epsilon.nil THEN mergePair(match(trie, key), match(trie.epsilon, key))
    ELSE match(trie, key)

\* The state walkArray reaches for index idx (0-based) of arrLen elements.
indexState(trie, idx, arrLen) ==
    IF ~trie.epsilon.nil
    THEN mergePair(matchIndex(trie, idx, arrLen), matchIndex(trie.epsilon, idx, arrLen))
    ELSE matchIndex(trie, idx, arrLen)

\* walker.resolveMatch
resolveMatch(w, val, child, depth) ==
    IF child.nil THEN (IF w.include THEN Ok(Nil) ELSE Ok(val))
    ELSE IF child.accepting THEN (IF w.include THEN Ok(val) ELSE Ok(Nil))
    ELSE walk(w, val, child, depth + 1)

\* The epsilon-closure step shared by walkObject and walkArray: r is the
\* result of resolveMatch for val.
epsilonStep(w, r, val, eps, depth) ==
    IF r.errs # {} THEN Fail(r.errs)
    ELSE IF eps.nil THEN r
    ELSE IF w.include
         THEN Let(walkSearchEpsilon(w, val, eps, depth + 1), LAMBDA found :
                  IF found.errs # {} THEN Fail(found.errs)
                  ELSE Ok(mergeValues(r.v, found.v)))
         ELSE IF r.v # Nil THEN walkFilterEpsilon(w, r.v, eps, depth + 1)
              ELSE r

\* walk refusing the last level the limit allows (depth >= maxDepth for
\* depth > maxDepth).
walkLimitOffByOne(w, node, trie, depth) ==
    IF trie.nil THEN (IF w.include THEN Ok(Nil) ELSE Ok(node))
    ELSE IF w.maxDepth > 0 /\ depth >= w.maxDepth
         THEN Fail({DepthError(depth, w.maxDepth)})
    ELSE IF trie.accepting THEN (IF w.include THEN Ok(node) ELSE Ok(Nil))
    ELSE IF IsObj(node) THEN walkObject(w, node, trie, depth)
    ELSE IF IsArr(node) THEN walkArray(w, node, trie, depth)
    ELSE IF w.include THEN Ok(Nil) ELSE Ok(node)

\* walker.walk
walk(w, node, trie, depth) ==
    IF trie.nil THEN (IF w.include THEN Ok(Nil) ELSE Ok(node))
    ELSE IF w.maxDepth > 0 /\ depth > w.maxDepth
         THEN Fail({DepthError(depth, w.maxDepth)})
    ELSE IF trie.accepting THEN (IF w.include THEN Ok(node) ELSE Ok(Nil))
    ELSE IF IsObj(node) THEN walkObject(w, node, trie, depth)
    ELSE IF IsArr(node) THEN walkArray(w, node, trie, depth)
    ELSE IF w.include THEN Ok(Nil) ELSE Ok(node)

\* walkObject returning the object it built also when it is empty in include
\* mode.
walkObjectKeepsEmpty(w, obj, trie, depth) ==
    ObjResult({<<key, KeptEntry(epsilonStep(w, resolveMatch(w, obj.f[key],
                                                            keyState(trie, key), depth),
                                            obj.f[key], trie.epsilon, depth))>> :
                 key \in DOMAIN obj.f})

\* walker.walkObject
walkObject(w, obj, trie, depth) ==
    Let(ObjResult({<<key, KeptEntry(epsilonStep(w, resolveMatch(w, obj.f[key],
                                                                 keyState(trie, key), depth),
                                                 obj.f[key], trie.epsilon, depth))>> :
                      key \in DOMAIN obj.f}), LAMBDA res :
        IF res.errs # {} THEN res
        ELSE IF w.include /\ DOMAIN res.v.f = {} THEN Ok(Nil)
        ELSE res)

\* walker.walkArray; positions are 1-based, Go's idx is i - 1.
walkArray(w, arr, trie, depth) ==
    Let(ArrCollect({<<i, KeptEntry(epsilonStep(w, resolveMatch(w, arr.e[i],
                                                   indexState(trie, i - 1, Len(arr.e)), depth),
                                                arr.e[i], trie.epsilon, depth))>> :
                       i \in 1..Len(arr.e)}, 1, Len(arr.e)), LAMBDA res :
        IF res.errs # {} THEN res
        ELSE IF w.include /\ Len(res.v) = 0 THEN Ok(Nil)
        ELSE Ok(Arr(res.v)))

\* The direct match of walkSearchEpsilon for val: walked when the epsilon
\* trie has a child for its key or index.
searchChild(w, val, childTrie, depth) ==
    IF ~childTrie.nil THEN walk(w, val, childTrie, depth + 1) ELSE Ok(Nil)

\* The body of the object loop of walkSearchEpsilon once both results are
\* there: the first error, else the two results merged.
searchObjectEntry(childResult, epsResult) ==
    KeptEntry(IF childResult.errs # {} THEN childResult
              ELSE IF epsResult.errs # {} THEN epsResult
              ELSE IF epsResult.v # Nil
                   THEN IF childResult.v # Nil
                        THEN Ok(mergeValues(childResult.v, epsResult.v))
                        ELSE epsResult
                   ELSE childResult)

\* The same for the array loop.
searchArrayEntry(childResult, epsResult) ==
    KeptEntry(IF childResult.errs # {} THEN childResult
              ELSE IF epsResult.errs # {} THEN epsResult
              ELSE Ok(mergeValues(childResult.v, epsResult.v)))

\* walker.walkSearchEpsilon (include mode)
walkSearchEpsilon(w, node, epsTrie, depth) ==
    IF w.maxDepth > 0 /\ depth > w.maxDepth
    THEN Fail({DepthError(depth, w.maxDepth)})
    ELSE IF IsObj(node)
    THEN Let(ObjResult({<<key, searchObjectEntry(
                                  searchChild(w, node.f[key], match(epsTrie, key), depth),
                                  walkSearchEpsilon(w, node.f[key], epsTrie, depth + 1))>> :
                           key \in DOMAIN node.f}), LAMBDA res :
             IF res.errs # {} THEN res
             ELSE IF DOMAIN res.v.f = {} THEN Ok(Nil)
             ELSE res)
    ELSE IF IsArr(node)
    THEN Let(ArrCollect({<<i, searchArrayEntry(
                                 searchChild(w, node.e[i],
                                             matchIndex(epsTrie, i - 1, Len(node.e)), depth),
                                 walkSearchEpsilon(w, node.e[i], epsTrie, depth + 1))>> :
                            i \in 1..Len(node.e)}, 1, Len(node.e)), LAMBDA res :
             IF res.errs # {} THEN res
             ELSE IF Len(res.v) = 0 THEN Ok(Nil)
             ELSE Ok(Arr(res.v)))
    ELSE Ok(Nil)

\* The body of both loops of walkFilterEpsilon for one entry val.  The loop
\* skips a fully matched entry; the object loop also skips a partially
\* matched entry whose filtered result is nil, the array loop appends it.
filterEntry(w, val, childTrie, epsTrie, depth, isObj) ==
    IF ~childTrie.nil /\ childTrie.accepting THEN Entry(Ok(Nil), TRUE)
    ELSE IF ~childTrie.nil
    THEN Let(walk(w, val, childTrie, depth + 1), LAMBDA childResult :
             IF childResult.errs # {} THEN Entry(childResult, FALSE)
             ELSE Let(walkFilterEpsilon(w, childResult.v, epsTrie, depth + 1),
                      LAMBDA epsResult : Entry(epsResult, isObj /\ epsResult.v = Nil)))
    ELSE Entry(walkFilterEpsilon(w, val, epsTrie, depth + 1), FALSE)

\* walker.walkFilterEpsilon (exclude mode)
walkFilterEpsilon(w, node, epsTrie, depth) ==
    IF w.maxDepth > 0 /\ depth > w.maxDepth
    THEN Fail({DepthError(depth, w.maxDepth)})
    ELSE IF IsObj(node)
    THEN ObjResult({<<key, filterEntry(w, node.f[key], match(epsTrie, key),
                                       epsTrie, depth, TRUE)>> : key \in DOMAIN node.f})
    ELSE IF IsArr(node)
    THEN Let(ArrCollect({<<i, filterEntry(w, node.e[i],
                                          matchIndex(epsTrie, i - 1, Len(node.e)),
                                          epsTrie, depth, FALSE)>> : i \in 1..Len(node.e)},
                        1, Len(node.e)), LAMBDA res :
             IF res.errs # {} THEN res ELSE Ok(Arr(res.v)))
    ELSE Ok(node)


(***************************************************************************)
(* Query (query.go) and Shake (shaker.go).  An error value is <<>> (nil)   *)
(* or <<e>>.                                                               *)
(***************************************************************************)
MaxPathCount == 1000

\* Include(paths...) / Exclude(paths...)
Include(paths) == [mode |-> "include", rawPaths |-> paths, prefix |-> <<>>, compiled |-> NoNode]

Exclude(paths) == [mode |-> "exclude", rawPaths |-> paths, prefix |-> <<>>, compiled |-> NoNode]

\* Query.WithPrefix: a copy with the prefix set and no automaton.
WithPrefix(q, prefix) ==
    [mode |-> q.mode, rawPaths |-> q.rawPaths, prefix |-> prefix, compiled |-> NoNode]

\* applyPrefix putting the prefix in front of every path, the paths that
\* start with "$" included.
applyPrefixToEveryPath(q, raw) == IF q.prefix = <<>> THEN raw ELSE q.prefix \o raw

\* Query.applyPrefix
applyPrefix(q, raw) ==
    IF q.prefix = <<>> THEN raw
    ELSE IF Len(raw) > 0 /\ raw[1] = "$" THEN raw
    ELSE q.prefix \o raw

RECURSIVE parseRange(_, _, _, _)
\* The loop of Query.buildTrie over rawPaths[lo..hi], each path parsed with
\* the length limit maxLength: [errs, paths], both in the order of the
\* paths; the range is halved as in insertRange.
parseRange(q, lo, hi, maxLength) ==
    IF lo > hi THEN [errs |-> <<>>, paths |-> <<>>]
    ELSE IF lo = hi
    THEN Let(ParsePath(applyPrefix(q, q.rawPaths[lo]), maxLength), LAMBDA r :
             IF Len(r.err) > 0 THEN [errs |-> <<r.err[1]>>, paths |-> <<>>]
             ELSE [errs |-> <<>>, paths |-> <<r.path>>])
    ELSE Let(parseRange(q, lo, (lo + hi) \div 2, maxLength), LAMBDA a :
         Let(parseRange(q, (lo + hi) \div 2 + 1, hi, maxLength), LAMBDA b :
             [errs |-> a.errs \o b.errs, paths |-> a.paths \o b.paths]))

\* The loop of Query.buildTrie from path i on, after errs and paths.
parseAll(q, i, errs, paths) ==
    Let(parseRange(q, i, Len(q.rawPaths), MaxPathLength), LAMBDA r :
        [errs |-> errs \o r.errs, paths |-> paths \o r.paths])

\* buildTrie leaving the invalid paths out and building the automaton from
\* the valid ones, failing only when no path is valid.
QueryBuildTrieSkipsInvalid(q) ==
    IF Len(q.rawPaths) > MaxPathCount
    THEN [trie |-> NoNode, err |-> <<[PathCount |-> MaxPathCount]>>]
    ELSE Let(parseAll(q, 1, <<>>, <<>>), LAMBDA r :
             IF Len(r.paths) = 0 THEN [trie |-> NoNode, err |-> <<[Joined |-> r.errs]>>]
             ELSE [trie |-> buildTrie(r.paths), err |-> <<>>])

\* buildTrie parsing every path before it looks at their number.
QueryBuildTrieParsesFirst(q) ==
    Let(parseAll(q, 1, <<>>, <<>>), LAMBDA r :
        IF Len(r.errs) > 0 THEN [trie |-> NoNode, err |-> <<[Joined |-> r.errs]>>]
        ELSE IF Len(q.rawPaths) > MaxPathCount
        THEN [trie |-> NoNode, err |-> <<[PathCount |-> MaxPathCount]>>]
        ELSE [trie |-> buildTrie(r.paths), err |-> <<>>])

\* Query.buildTrie: [trie, err]; errors.Join(errs...) is [Joined |-> errs].
QueryBuildTrie(q) ==
    IF Len(q.rawPaths) > MaxPathCount
    THEN [trie |-> NoNode, err |-> <<[PathCount |-> MaxPathCount]>>]
    ELSE Let(parseAll(q, 1, <<>>, <<>>), LAMBDA r :
             IF Len(r.errs) > 0 THEN [trie |-> NoNode, err |-> <<[Joined |-> r.errs]>>]
             ELSE [trie |-> buildTrie(r.paths), err |-> <<>>])

\* Query.Compile (value receiver): [q, err], q the returned Query.
QueryCompile(q) ==
    IF ~q.compiled.nil THEN [q |-> q, err |-> <<>>]
    ELSE Let(QueryBuildTrie(q), LAMBDA b :
             IF Len(b.err) > 0 THEN [q |-> q, err |-> b.err]
             ELSE [q |-> [mode |-> q.mode, rawPaths |-> q.rawPaths, prefix |-> q.prefix,
                          compiled |-> b.trie],
                   err |-> <<>>])

\* Query.compile that builds the automaton for the call without storing it
\* in the receiver.
compileStoresNothing(q) ==
    IF ~q.compiled.nil THEN [q |-> q, err |-> <<>>]
    ELSE Let(QueryBuildTrie(q), LAMBDA b : [q |-> q, err |-> b.err])

\* Query.compile (pointer receiver): [q, err], q the receiver afterwards.
compile(q) ==
    IF ~q.compiled.nil THEN [q |-> q, err |-> <<>>]
    ELSE Let(QueryBuildTrie(q), LAMBDA b :
             IF Len(b.err) > 0 THEN [q |-> q, err |-> b.err]
             ELSE [q |-> [q EXCEPT !.compiled = b.trie], err |-> <<>>])

\* Query.Walk with the walker's depth limit md: [q, v, errs], q the receiver
\* afterwards and errs the set of errors the call can return.
QueryWalk(q, tree, md) ==
    Let(compile(q), LAMBDA c :
        IF Len(c.err) > 0 THEN [q |-> c.q, v |-> Nil, errs |-> {c.err[1]}]
        ELSE Let(walk(newWalker(c.q.mode = "include", md), tree, c.q.compiled, 0), LAMBDA r :
                 [q |-> c.q, v |-> r.v, errs |-> r.errs]))

\* Shake without the switch on the tree's top-level shape: a nil result is
\* marshalled as it is ("null").
ShakeMarshalsNil(tree, q, md) ==
    Let(QueryWalk(q, tree, md), LAMBDA r :
        IF r.errs # {} THEN [v |-> Nil, errs |-> r.errs] ELSE [v |-> r.v, errs |-> {}])

\* Shake(input, q) on the decoded tree of input: [v, errs].  The Query is
\* passed by value, so the caller's query is not compiled by the call.  v is
\* the tree that the returned bytes encode ("{}", "[]" or Marshal(result)).
Shake(tree, q, md) ==
    Let(QueryWalk(q, tree, md), LAMBDA r :
        IF r.errs # {} THEN [v |-> Nil, errs |-> r.errs]
        ELSE IF r.v = Nil
        THEN [v |-> IF IsObj(tree) THEN Obj(EmptyFcn)
                     ELSE IF IsArr(tree) THEN Arr(<<>>) ELSE Nil,
              errs |-> {}]
        ELSE [v |-> r.v, errs |-> {}])

(***************************************************************************)
(* What a query selects (RFC 9535 reading of the path language, with the   *)
(* repository's Selector.Matches deciding one step): the reference the     *)
(* walker's output is compared with.  A position is the sequence of steps  *)
(* from the root: an object key, or IdxStep(i) for the i-th element.       *)
(***************************************************************************)
\* The step of a position for array position i (1-based).
IdxStep(i) == <<"#", <<"0", "1", "2", "3", "4", "5", "6", "7", "8", "9">>[i]>>

\* NameSelector / IndexSelector / WildcardSelector / SliceSelector . Matches
\* for an object key.
MatchesKey(sel, key) ==
    CASE sel.t = "name" -> sel.Name = key
      [] sel.t = "wildcard" -> TRUE
      [] OTHER -> FALSE

\* The same for an array index idx (0-based) of an array of arrLen elements.
MatchesIdx(sel, idx, arrLen) ==
    CASE sel.t = "index" -> IndexMatches(sel, idx, arrLen)
      [] sel.t = "slice" -> SliceMatches(sel, idx, arrLen)
      [] sel.t = "wildcard" -> TRUE
      [] OTHER -> FALSE

\* The children of v as <<step, child, matched>>, matched telling whether
\* some selector of seg matches the child's key or index.
ChildrenOf(v, seg) ==
    IF IsObj(v)
    THEN {<<key, v.f[key], \E j \in 1..Len(seg.Selectors) : MatchesKey(seg.Selectors[j], key)>> :
             key \in DOMAIN v.f}
    ELSE IF IsArr(v)
    THEN {<<IdxStep(i), v.e[i],
            \E j \in 1..Len(seg.Selectors) : MatchesIdx(seg.Selectors[j], i - 1, Len(v.e))>> :
             i \in 1..Len(v.e)}
    ELSE {}

RECURSIVE Selected(_, _, _, _)
\* The positions selected by segments i.. of a path, applied to the node v at
\* position pos.
Selected(v, pos, segs, i) ==
    IF i > Len(segs) THEN {pos}
    ELSE Let(ChildrenOf(v, segs[i]), LAMBDA kids :
             UNION {Selected(c[2], Append(pos, c[1]), segs, i + 1) : c \in {d \in kids : d[3]}}
             \cup (IF segs[i].Descendant
                   THEN UNION {Selected(c[2], Append(pos, c[1]), segs, i) : c \in kids}
                   ELSE {}))

\* The positions of doc selected by at least one path of the query q.
SelectedBy(q, doc) ==
    Let(parseAll(q, 1, <<>>, <<>>).paths, LAMBDA ps :
        UNION {Selected(doc, <<>>, ps[i].Segments, 1) : i \in 1..Len(ps)})

RECURSIVE NodeAt(_, _, _)
\* The node of v at position pos (from step i on).
NodeAt(v, pos, i) ==
    IF i > Len(pos) THEN v
    ELSE IF IsObj(v) THEN NodeAt(v.f[pos[i]], pos, i + 1)
    ELSE NodeAt(v.e[CHOOSE j \in 1..Len(v.e) : IdxStep(j) = pos[i]], pos, i + 1)

RECURSIVE Leaves(_)
\* The payloads of the scalar leaves of v.
Leaves(v) ==
    IF IsObj(v) THEN UNION {Leaves(v.f[key]) : key \in DOMAIN v.f}
    ELSE IF IsArr(v) THEN UNION {Leaves(v.e[i]) : i \in 1..Len(v.e)}
    ELSE IF v = Nil THEN {}
    ELSE {v.v}

RECURSIVE Occurs(_, _)
\* sub occurs in v as v itself or as the subtree at some position of v.
Occurs(sub, v) ==
    \/ sub = v
    \/ IsObj(v) /\ \E key \in DOMAIN v.f : Occurs(sub, v.f[key])
    \/ IsArr(v) /\ \E i \in 1..Len(v.e) : Occurs(sub, v.e[i])

RECURSIVE Nesting(_)
\* The nesting of v: 0 for a leaf or an empty container, else one more than
\* the deepest child.
Nesting(v) ==
    Let(IF IsObj(v) THEN {Nesting(v.f[key]) : key \in DOMAIN v.f}
        ELSE IF IsArr(v) THEN {Nesting(v.e[i]) : i \in 1..Len(v.e)} ELSE {}, LAMBDA ds :
        IF ds = {} THEN 0 ELSE 1 + (CHOOSE m \in ds : \A d \in ds : d <= m))

(***************************************************************************)
(* Input universe: every document of at most MaxNodes nodes over two keys, *)
(* each scalar leaf carrying its own position as payload (so that a leaf   *)
(* of an output identifies the node of the input it was copied from), and  *)
(* queries over short paths.                                               *)
(***************************************************************************)
\* Bound: number of nodes (containers and leaves) of an input document.
MaxNodes == 4

KeyA == <<"a">>

KeyK == <<"k">>

LeafShapes == {Nil, Scalar("number", <<>>)}

RECURSIVE Shapes(_)
RECURSIVE ElemSeqs(_)
\* The non-empty element sequences of at most b nodes in total.
ElemSeqs(b) ==
    IF b <= 0 THEN {}
    ELSE {<<c>> : c \in Shapes(b)}
         \cup UNION {{<<c>> \o rest : c \in Shapes(i), rest \in ElemSeqs(b - i)} : i \in 1..(b - 1)}

\* The unlabelled documents of at most b nodes.
Shapes(b) ==
    IF b <= 0 THEN {}
    ELSE LeafShapes \cup {Obj(EmptyFcn), Arr(<<>>)}
         \cup {Obj(key :> c) : key \in {KeyA, KeyK}, c \in Shapes(b - 1)}
         \cup UNION {{Obj(KeyA :> c1 @@ KeyK :> c2) : c1 \in Shapes(i), c2 \in Shapes(b - 1 - i)} :
                        i \in 1..(b - 2)}
         \cup {Arr(e) : e \in ElemSeqs(b - 1)}

\* The JSON kind of the scalar at position pos: strings, numbers and booleans
\* all occur.
KindOf(pos) == <<"string", "number", "boolean">>[(Len(pos) % 3) + 1]

RECURSIVE Label(_, _)
\* v with every scalar leaf replaced by a scalar unique to its position.
Label(v, pos) ==
    IF IsObj(v) THEN Obj([key \in DOMAIN v.f |-> Label(v.f[key], Append(pos, key))])
    ELSE IF IsArr(v) THEN Arr([i \in 1..Len(v.e) |-> Label(v.e[i], Append(pos, IdxStep(i)))])
    ELSE IF v = Nil THEN Nil
    ELSE Scalar(KindOf(pos), pos)

Docs == {Label(v, <<>>) : v \in Shapes(MaxNodes)}

\* Path texts are written as sequences of characters.
Root == <<"$">>

PieceA == <<".", "a">>

PieceK == <<".", "k">>

PieceDescK == <<".", ".", "k">>

Piece0 == <<"[", "0", "]">>

PieceWild == <<"[", "*", "]">>

PieceDesc1 == <<".", ".", "[", "1", "]">>

PieceDesc0 == <<".", ".", "[", "0", "]">>

PieceLast == <<"[", "-", "1", "]">>

PieceFrom1 == <<"[", "1", ":", "]">>

Pieces == {PieceA, PieceK, PieceDescK, Piece0, PieceWild, PieceDesc1}

\* Absolute paths of one or two segments, and negative-index and slice paths.
SinglePaths ==
    {Root \o p : p \in Pieces} \cup {Root \o p \o r : p \in Pieces, r \in Pieces}
    \cup {Root \o PieceLast, Root \o PieceFrom1, Root \o PieceA \o PieceLast,
          Root \o PieceA \o PieceFrom1}

\* Paths without recursive descent, to be combined with a descendant path.
DirectPaths == {Root \o PieceA, Root \o PieceA \o Piece0, Root \o PieceA \o PieceK, Root \o Piece0}

DescPaths == {Root \o PieceDescK, Root \o PieceDesc1, Root \o PieceDesc0}

\* The path lists of the queries: one path, or a direct and a descendant path.
PathLists == {<<p>> : p \in SinglePaths} \cup {<<d, e>> : d \in DirectPaths, e \in DescPaths}

Queries == {Include(ps) : ps \in PathLists} \cup {Exclude(ps) : ps \in PathLists}

(***************************************************************************)
(* State machine: a caller holding a document and a Query value calls      *)
(* Compile, Walk or Shake on them, and may feed an output to the next call.*)
(***************************************************************************)
VARIABLES
    input,      \* the decoded document handed to the next call
    query,      \* the caller's Query value
    maxDepth,   \* the depth limit the walker is constructed with (0: none)
    ret,        \* what the last call returned
    prev,       \* the earlier stages of a pipeline, oldest first
    heap,       \* the trie nodes in memory, by address (shared automaton)
    at,         \* for each concurrent walk, the state it has reached
    builds      \* how often buildTrie has run for the caller's paths

vars == <<input, query, maxDepth, ret, prev, heap, at, builds>>

\* The variables only the specifications of the shared automaton and of
\* lazy compilation use.
aux == <<heap, at, builds>>

AuxInit == heap = <<>> /\ at = <<>> /\ builds = 0

NoCall == [op |-> "none", v |-> Nil, err |-> <<>>]

\* q := q.Compile()
Compile ==
    /\ LET r == QueryCompile(query)
       IN /\ query' = r.q
          /\ ret' = [op |-> "Compile", v |-> Nil, err |-> r.err]
    /\ UNCHANGED <<input, maxDepth, prev>>
    /\ UNCHANGED aux

\* out, err := q.Walk(tree)
Walk ==
    /\ LET r == QueryWalk(query, input, maxDepth)
       IN /\ query' = r.q
          /\ IF r.errs = {}
             THEN ret' = [op |-> "Walk", v |-> r.v, err |-> <<>>]
             ELSE \E e \in r.errs : ret' = [op |-> "Walk", v |-> r.v, err |-> <<e>>]
    /\ UNCHANGED <<input, maxDepth, prev>>
    /\ UNCHANGED aux

\* out, err := Shake(input, q)
ShakeCall ==
    /\ LET r == Shake(input, query, maxDepth)
       IN IF r.errs = {}
          THEN ret' = [op |-> "Shake", v |-> r.v, err |-> <<>>]
          ELSE \E e \in r.errs : ret' = [op |-> "Shake", v |-> r.v, err |-> <<e>>]
    /\ UNCHANGED <<input, query, maxDepth, prev>>
    /\ UNCHANGED aux

\* A stage of a pipeline as remembered in prev.
Stage == [input |-> input, mode |-> query.mode, rawPaths |-> query.rawPaths, out |-> ret.v]

\* The caller applies the same query to the output of the call before.
Again ==
    /\ ret.op = "Walk" /\ ret.err = <<>> /\ prev = <<>>
    /\ prev' = <<Stage>>
    /\ input' = ret.v
    /\ ret' = NoCall
    /\ UNCHANGED <<query, maxDepth>>
    /\ UNCHANGED aux

Init ==
    /\ input \in Docs
    /\ query \in Queries
    /\ maxDepth = 0
    /\ ret = NoCall
    /\ prev = <<>>
    /\ AuxInit

Next == Walk

\* The walker on every document and query of the universe, without a depth
\* limit.
Spec == Init /\ [][Next]_vars

(***************************************************************************)
(* Properties of the walk (specification Spec).                            *)
(***************************************************************************)
\* A walk has returned a value (possibly none) and no error.
Walked == ret.op = "Walk" /\ ret.err = <<>>

\* The subtrees of the input that the query selects.
SelectedNodes == {NodeAt(input, p, 1) : p \in SelectedBy(query, input)}

\* C1: in exclude mode no node of the document that some path of the query
\* selects remains in the result: no leaf below a selected node is a leaf of
\* the output, also where a direct and a recursive-descent path overlap.
C1_ExcludeLeavesNoSelectedNode ==
    (Walked /\ query.mode = "exclude") =>
        \A n \in SelectedNodes : Leaves(n) \cap Leaves(ret.v) = {}

\* C2: in include mode every node of the document that some path of the
\* query selects is present in the result with its whole subtree.
C2_IncludeKeepsEverySelectedNode ==
    (Walked /\ query.mode = "include") =>
        \A n \in SelectedNodes : Occurs(n, ret.v)

\* The positions (1-based) of the array arr whose state under trie is accepting.
AcceptingIdx(trie, arr) ==
    {i \in 1..Len(arr.e) : LET c == indexState(trie, i - 1, Len(arr.e))
                           IN ~c.nil /\ c.accepting}

\* The keys of the object obj whose state under trie is accepting.
AcceptingKeys(trie, obj) ==
    {key \in DOMAIN obj.f : LET c == keyState(trie, key) IN ~c.nil /\ c.accepting}

\* C3: where the state reached for a key or an index of the document's top
\* level is accepting, include mode keeps the value there verbatim, whatever
\* its kind (null too), and exclude mode drops the key or element.
C3_AcceptingKeepsOrDrops ==
    Walked =>
        /\ IsObj(input) =>
              \A key \in AcceptingKeys(query.compiled, input) :
                 IF query.mode = "include"
                 THEN IsObj(ret.v) /\ key \in DOMAIN ret.v.f /\ ret.v.f[key] = input.f[key]
                 ELSE IsObj(ret.v) /\ key \notin DOMAIN ret.v.f
        /\ IsArr(input) =>
              LET acc == AcceptingIdx(query.compiled, input)
              IN IF query.mode = "include"
                 THEN \A i \in acc : IsArr(ret.v) /\ \E j \in 1..Len(ret.v.e) : ret.v.e[j] = input.e[i]
                 ELSE /\ IsArr(ret.v)
                      /\ Len(ret.v.e) <= Len(input.e) - Cardinality(acc)
                      /\ \A i \in acc : Leaves(input.e[i]) \cap Leaves(ret.v) = {}

\* C4: an exclude query none of whose paths selects a node of the document
\* returns the document unchanged, null values included.
C4_ExcludeNoMatchUnchanged ==
    (Walked /\ query.mode = "exclude" /\ SelectedBy(query, input) = {}) => ret.v = input

(***************************************************************************)
(* The entry point Shake beside Walk, for include queries.                 *)
(***************************************************************************)
InitShake ==
    /\ input \in Docs
    /\ query \in {Include(ps) : ps \in PathLists}
    /\ maxDepth = 0
    /\ ret = NoCall
    /\ prev = <<>>
    /\ AuxInit

NextShake == Walk \/ ShakeCall

SpecShake == InitShake /\ [][NextShake]_vars

\* The call is about an object or array that no path of the include query
\* selects a node of.
NothingSelected ==
    /\ query.mode = "include"
    /\ IsObj(input) \/ IsArr(input)
    /\ SelectedBy(query, input) = {}

\* C5: for a document whose top level is an object or an array and an include
\* query none of whose paths selects a node of it, the walker yields none and
\* Shake returns the empty container of the document's top-level shape.
C5_IncludeNoMatchEmptyContainer ==
    NothingSelected =>
        /\ ret.op = "Walk" => ret.err = <<>> /\ ret.v = Nil
        /\ ret.op = "Shake" =>
              /\ ret.err = <<>>
              /\ ret.v = (IF IsObj(input) THEN Obj(EmptyFcn) ELSE Arr(<<>>))

\* C5's case: Shake has answered [] for a non-empty array nothing is selected
\* in, after Walk (on the caller's query, compiled by it) yielded none.
C5_Witness ==
    /\ NothingSelected
    /\ ret.op = "Shake" /\ ret.v = Arr(<<>>)
    /\ IsArr(input) /\ Len(input.e) > 0
    /\ ~query.compiled.nil

(***************************************************************************)
(* An include query applied a second time, to its own output.              *)
(***************************************************************************)
NextAgain == Walk \/ Again

SpecAgain == InitShake /\ [][NextAgain]_vars

\* The second walk of the same query, over the output of the first, has
\* returned.
WalkedAgain == Walked /\ prev # <<>> /\ prev[1].out = input

\* Every selector of every path of the query is a name or a wildcard: the
\* query addresses no array element by its position.
PositionFree ==
    LET ps == parseAll(query, 1, <<>>, <<>>).paths
    IN \A i \in 1..Len(ps) : \A j \in 1..Len(ps[i].Segments) :
          \A m \in 1..Len(ps[i].Segments[j].Selectors) :
             ps[i].Segments[j].Selectors[m].t \in {"name", "wildcard"}

\* C6 as stated: for every include query of absolute paths, walking the
\* query's own output returns that output again, also for arrays addressed by
\* index, negative index or slice.
C6_IncludeIdempotentAnyPath ==
    WalkedAgain => ret.v = input

\* C6 for queries that address nothing by position (names and wildcards,
\* with or without recursive descent): walking the query's own output
\* returns that output again.
C6_IncludeIdempotent ==
    (WalkedAgain /\ PositionFree) => ret.v = input

\* C6's case: a position-free query has pruned a document down to a
\* non-empty output holding an array, and the second walk has returned.
C6_Witness ==
    /\ WalkedAgain /\ PositionFree
    /\ ret.v # Nil
    /\ prev[1].input # prev[1].out
    /\ \E key \in {KeyA, KeyK} : IsObj(ret.v) /\ key \in DOMAIN ret.v.f /\ IsArr(ret.v.f[key])

(***************************************************************************)
(* A pipeline: an exclude query, then a second query over its output.      *)
(***************************************************************************)
\* Bound: the depth limit of the pipeline's walks, beside no limit.
PipeDepth == 1

\* The path lists of the pipeline's queries.
PipeLists ==
    {<<Root \o PieceA>>, <<Root \o PieceDescK>>, <<Root \o PieceWild \o PieceK>>,
     <<Root \o PieceA \o PieceK>>, <<Root \o PieceA \o Piece0, Root \o PieceDesc1>>}

PipeQueries == {Include(ps) : ps \in PipeLists} \cup {Exclude(ps) : ps \in PipeLists}

\* The caller hands the output of the walk to a second query.
Then ==
    /\ ret.op = "Walk" /\ ret.err = <<>> /\ prev = <<>>
    /\ prev' = <<Stage>>
    /\ input' = ret.v
    /\ query' \in PipeQueries
    /\ ret' = NoCall
    /\ UNCHANGED maxDepth
    /\ UNCHANGED aux

InitPipe ==
    /\ input \in Docs
    /\ query \in {Exclude(ps) : ps \in PipeLists}
    /\ maxDepth \in {0, PipeDepth}
    /\ ret = NoCall
    /\ prev = <<>>
    /\ AuxInit

NextPipe == Walk \/ Then

SpecPipe == InitPipe /\ [][NextPipe]_vars

\* C7: the output of an exclude walk is valid input to any second query: a
\* walk of the pipeline fails only by exceeding the depth limit, it succeeds
\* on every input nested within the limit, and the second result is made of
\* values of its input only, so it holds no value the first walk removed.
C7_PipelineNarrows ==
    ret.op = "Walk" =>
        /\ ret.err # <<>> =>
              /\ maxDepth > 0
              /\ ret.err[1] = [Depth |-> maxDepth + 1, MaxDepth |-> maxDepth]
              /\ Nesting(input) > maxDepth
        /\ (ret.err = <<>> /\ prev # <<>>) =>
              /\ Leaves(ret.v) \subseteq Leaves(input)
              /\ Leaves(ret.v) \cap (Leaves(prev[1].input) \ Leaves(prev[1].out)) = {}

\* C7's case: the exclude query removed a value, and the second query, an
\* include query, kept some of what was left and dropped some.
C7_Witness ==
    /\ Walked /\ prev # <<>> /\ prev[1].mode = "exclude" /\ query.mode = "include"
    /\ Leaves(prev[1].input) # Leaves(prev[1].out)
    /\ Leaves(ret.v) # {}
    /\ Leaves(ret.v) # Leaves(input)
    /\ maxDepth > 0

(***************************************************************************)
(* Walks under a depth limit.                                              *)
(***************************************************************************)
\* Bound: the largest depth limit tried (1..MaxLimit).
MaxLimit == 2

\* The path lists of the queries walked under a limit: direct paths of one to
\* three segments, recursive descent at the root and below it, and direct
\* paths beside a descendant path.
DepthLists ==
    {<<Root \o PieceA>>, <<Root \o PieceWild>>, <<Root \o PieceDescK>>, <<Root \o PieceDesc1>>,
     <<Root \o PieceA \o PieceK>>, <<Root \o PieceA \o PieceWild>>,
     <<Root \o PieceWild \o PieceWild>>, <<Root \o PieceA \o PieceDescK>>,
     <<Root \o PieceA \o PieceA \o PieceA>>,
     <<Root \o PieceA, Root \o PieceDescK>>, <<Root \o PieceA \o PieceK, Root \o PieceDescK>>,
     <<Root \o PieceA \o Piece0, Root \o PieceDesc1>>}

InitDepth ==
    /\ input \in Docs
    /\ query \in {Include(ps) : ps \in DepthLists} \cup {Exclude(ps) : ps \in DepthLists}
    /\ maxDepth \in 1..MaxLimit
    /\ ret = NoCall
    /\ prev = <<>>
    /\ AuxInit

SpecDepth == InitDepth /\ [][NextShake]_vars

\* Some path of the query begins with recursive descent ($..x).
RootDescent ==
    LET ps == parseAll(query, 1, <<>>, <<>>).paths
    IN \E i \in 1..Len(ps) : ps[i].Segments[1].Descendant

C9_DepthErrorAborts ==
    ret.op \in {"Walk", "Shake"} =>
        /\ ret.err # <<>> => ret.v = Nil
        /\ (ret.err = <<>> /\ ret.op = "Walk") => ret.v = QueryWalk(query, input, 0).v
        /\ (ret.err = <<>> /\ ret.op = "Shake") => ret.v = Shake(input, query, 0).v

\* C9's case: the walk of an object of two keys failed below one key while
\* the other key could be processed, and nothing was returned.
C9_Witness ==
    /\ ret.op = "Walk" /\ ret.err # <<>> /\ ret.v = Nil
    /\ IsObj(input) /\ DOMAIN input.f = {KeyA, KeyK}
    /\ Nesting(input.f[KeyA]) < maxDepth
    /\ Nesting(input.f[KeyK]) >= maxDepth

(***************************************************************************)
(* Queries with invalid paths.                                             *)
(***************************************************************************)
\* Bound: number of paths of a query.
MaxPaths == 3

\* Path texts that do not parse: a bracket left open, a bracket holding a
\* bare name, and the empty text.
BadPaths == {Root \o PieceA \o <<"[">>, Root \o <<"[", "k">>, <<>>}

GoodPaths == {Root \o PieceA, Root \o PieceDescK}

RECURSIVE PathSeqs(_)
\* The lists of one to n path texts, valid and invalid.
PathSeqs(n) ==
    IF n <= 0 THEN {}
    ELSE {<<p>> : p \in GoodPaths \cup BadPaths}
         \cup {Append(ps, p) : ps \in PathSeqs(n - 1), p \in GoodPaths \cup BadPaths}

CompileDocs ==
    {Label(Obj(KeyA :> Scalar("number", <<>>) @@ KeyK :> Scalar("number", <<>>)), <<>>),
     Label(Arr(<<Obj(KeyK :> Scalar("number", <<>>))>>), <<>>)}

InitCompile ==
    /\ input \in CompileDocs
    /\ query \in {Include(ps) : ps \in PathSeqs(MaxPaths)}
                    \cup {Exclude(ps) : ps \in PathSeqs(MaxPaths)}
    /\ maxDepth = 0
    /\ ret = NoCall
    /\ prev = <<>>
    /\ AuxInit

NextCompile == Compile \/ Walk \/ ShakeCall

SpecCompile == InitCompile /\ [][NextCompile]_vars

\* The invalid paths of the query, in the order they were given.
InvalidPaths == SelectSeq(query.rawPaths, LAMBDA p : p \in BadPaths)

\* C10: for a query with k >= 1 invalid paths, Compile, and every Walk and
\* Shake at any later time, return one aggregated error of exactly k
\* ParseErrors, one for each invalid path, and no output; the query holds no
\* automaton, so none of its valid paths is applied.
C10_InvalidPathFailsWholeQuery ==
    (Len(InvalidPaths) >= 1 /\ ret.op # "none") =>
        /\ ret.err # <<>>
        /\ DOMAIN ret.err[1] = {"Joined"}
        /\ Len(ret.err[1].Joined) = Len(InvalidPaths)
        /\ \A i \in 1..Len(InvalidPaths) :
              /\ DOMAIN ret.err[1].Joined[i] = {"Path", "Pos", "Message"}
              /\ ret.err[1].Joined[i].Path = InvalidPaths[i]
        /\ ret.v = Nil
        /\ query.compiled.nil

\* C10's case: a query of three paths, two of them invalid and one valid,
\* has been used by Shake.
C10_Witness ==
    /\ Len(query.rawPaths) = 3 /\ Len(InvalidPaths) = 2
    /\ ret.op = "Shake" /\ ret.err # <<>>
    /\ Len(ret.err[1].Joined) = 2

(***************************************************************************)
(* C11: the path-count check of buildTrie, at the limit MaxPathCount of    *)
(* the code.  The queries hold MaxPathCount .. MaxPathCount + MaxOver      *)
(* paths: a first path, a last path and one text repeated in between,      *)
(* valid, invalid or over-long.                                            *)
(***************************************************************************)
MaxOver == 1

\* A path text of MaxPathLength + 1 bytes.
LongPath == [i \in 1..(MaxPathLength + 1) |-> IF i = 1 THEN "$" ELSE IF i = 2 THEN "." ELSE "a"]

CountList(n, head, fill, last) ==
    [i \in 1..n |-> IF i = 1 THEN head ELSE IF i = n THEN last ELSE fill]

CountLists ==
    {CountList(n, head, fill, last) :
        n \in MaxPathCount..(MaxPathCount + MaxOver),
        head \in GoodPaths \cup BadPaths \cup {LongPath},
        fill \in {Root \o PieceA, Root \o <<"[", "k">>},
        last \in {Root \o PieceDescK, <<>>, LongPath}}

InitCount ==
    /\ input = Label(Obj(KeyA :> Scalar("number", <<>>)), <<>>)
    /\ query \in {Include(ps) : ps \in CountLists} \cup {Exclude(ps) : ps \in CountLists}
    /\ maxDepth = 0
    /\ ret = NoCall
    /\ prev = <<>>
    /\ AuxInit

SpecCount == InitCount /\ [][NextCompile]_vars

\* The paths of the query that no parse accepts, in the order given.
RejectedPaths == SelectSeq(query.rawPaths, LAMBDA p : p \in BadPaths \cup {LongPath})

\* C11: a query of more than MaxPathCount paths fails in every use with the
\* path-count error alone, no ParseError, whatever its paths are; a query of
\* exactly MaxPathCount paths passes the check and its paths are parsed: it
\* fails with one ParseError for each invalid or over-long path, and
\* succeeds when there is none.
C11_PathCountCheckedFirst ==
    ret.op # "none" =>
        /\ Len(query.rawPaths) > MaxPathCount =>
              /\ ret.err = <<[PathCount |-> MaxPathCount]>>
              /\ ret.v = Nil
              /\ query.compiled.nil
        /\ Len(query.rawPaths) = MaxPathCount =>
              IF Len(RejectedPaths) = 0 THEN ret.err = <<>>
              ELSE /\ ret.err # <<>>
                   /\ DOMAIN ret.err[1] = {"Joined"}
                   /\ Len(ret.err[1].Joined) = Len(RejectedPaths)
                   /\ \A i \in 1..Len(RejectedPaths) :
                         /\ DOMAIN ret.err[1].Joined[i] = {"Path", "Pos", "Message"}
                         /\ ret.err[1].Joined[i].Path = RejectedPaths[i]

\* C11's case: Compile has refused a query of MaxPathCount + 1 paths, all of
\* them invalid or over-long, with the path-count error.
C11_Witness ==
    /\ Len(query.rawPaths) = MaxPathCount + 1
    /\ Len(RejectedPaths) = Len(query.rawPaths)
    /\ query.rawPaths[1] = LongPath
    /\ ret.op = "Compile"
    /\ ret.err = <<[PathCount |-> MaxPathCount]>>

\* C11's other case: a query of exactly MaxPathCount valid paths compiled.
C11_WitnessAtLimit ==
    /\ Len(query.rawPaths) = MaxPathCount
    /\ ret.op = "Compile" /\ ret.err = <<>> /\ ~query.compiled.nil

(***************************************************************************)
(* C12: Limits.  The Limits type and Query.WithLimits are documented in    *)
(* pkg/shaker (query.go, shaker.go) and used by the tests; a *int field is *)
(* <<>> (nil) or <<n>>.  The limits travel with the query as the field     *)
(* limits, absent on a query WithLimits was never called on.               *)
(***************************************************************************)
Limits(md, mpl, mpc) == [MaxDepth |-> md, MaxPathLength |-> mpl, MaxPathCount |-> mpc]

\* The zero value Limits{}.
ZeroLimits == Limits(<<>>, <<>>, <<>>)

DefaultLimits == Limits(<<MaxDepth>>, <<MaxPathLength>>, <<MaxPathCount>>)

NoLimits == Limits(<<0>>, <<0>>, <<0>>)

\* q.WithLimits(limits)
WithLimits(q, limits) ==
    [mode |-> q.mode, rawPaths |-> q.rawPaths, prefix |-> q.prefix,
     compiled |-> q.compiled, limits |-> limits]

LimitsOf(q) == IF "limits" \in DOMAIN q THEN q.limits ELSE ZeroLimits

\* The value a limit is enforced with: the default for nil, else the value
\* given; 0 is the value the checks read as "no limit".
resolveLimit(field, default) == IF Len(field) = 0 THEN default ELSE field[1]

\* Query.buildTrie under the query's limits: [trie, err].
LimitedBuildTrie(q) ==
    Let(resolveLimit(LimitsOf(q).MaxPathCount, MaxPathCount), LAMBDA maxCount :
        IF maxCount > 0 /\ Len(q.rawPaths) > maxCount
        THEN [trie |-> NoNode, err |-> <<[PathCount |-> maxCount]>>]
        ELSE Let(parseRange(q, 1, Len(q.rawPaths),
                            resolveLimit(LimitsOf(q).MaxPathLength, MaxPathLength)), LAMBDA r :
                 IF Len(r.errs) > 0 THEN [trie |-> NoNode, err |-> <<[Joined |-> r.errs]>>]
                 ELSE [trie |-> buildTrie(r.paths), err |-> <<>>]))

\* Query.compile under the query's limits: [q, err].
LimitedCompile(q) ==
    IF ~q.compiled.nil THEN [q |-> q, err |-> <<>>]
    ELSE Let(LimitedBuildTrie(q), LAMBDA b :
             IF Len(b.err) > 0 THEN [q |-> q, err |-> b.err]
             ELSE [q |-> [q EXCEPT !.compiled = b.trie], err |-> <<>>])

\* Query.Walk under the query's limits: [q, v, errs].
LimitedWalk(q, tree) ==
    Let(LimitedCompile(q), LAMBDA c :
        IF Len(c.err) > 0 THEN [q |-> c.q, v |-> Nil, errs |-> {c.err[1]}]
        ELSE Let(walk(newWalker(c.q.mode = "include",
                                resolveLimit(LimitsOf(q).MaxDepth, MaxDepth)),
                      tree, c.q.compiled, 0), LAMBDA r :
                 [q |-> c.q, v |-> r.v, errs |-> r.errs]))

\* q = q.WithLimits(limits), on a query not used yet.
WithLimitsCall(choices) ==
    /\ ret.op = "none" /\ query.compiled.nil /\ "limits" \notin DOMAIN query
    /\ \E l \in choices : query' = WithLimits(query, l)
    /\ UNCHANGED <<input, maxDepth, ret, prev>>
    /\ UNCHANGED aux

\* q, err = q.Compile()
LimitedCompileCall ==
    /\ Let(LimitedCompile(query), LAMBDA r :
            /\ query' = r.q
            /\ ret' = [op |-> "Compile", v |-> Nil, err |-> r.err])
    /\ UNCHANGED <<input, maxDepth, prev>>
    /\ UNCHANGED aux

\* out, err := q.Walk(tree)
LimitedWalkCall ==
    /\ Let(LimitedWalk(query, input), LAMBDA r :
            /\ query' = r.q
            /\ IF r.errs = {}
               THEN ret' = [op |-> "Walk", v |-> r.v, err |-> <<>>]
               ELSE \E e \in r.errs : ret' = [op |-> "Walk", v |-> r.v, err |-> <<e>>])
    /\ UNCHANGED <<input, maxDepth, prev>>
    /\ UNCHANGED aux

\* The custom limits of the universe.
CustomDepth == 1

CustomLength == 4

CustomCount == 2

LimitChoices ==
    {Limits(md, mpl, mpc) : md \in {<<>>, <<0>>, <<CustomDepth>>},
                            mpl \in {<<>>, <<0>>, <<CustomLength>>},
                            mpc \in {<<>>, <<0>>, <<CustomCount>>}}
      \cup {NoLimits, DefaultLimits}

\* n copies of the path $.a
Copies(n) == [i \in 1..n |-> Root \o PieceA]

LimitLists ==
    {<<Root \o PieceA>>, <<Root \o PieceA \o PieceK>>, <<Root \o PieceDescK>>,
     <<Root \o PieceA, Root \o PieceDescK, Root \o PieceA \o PieceK>>,
     <<LongPath>>, Copies(MaxPathCount), Copies(MaxPathCount + 1)}

LimitDocs ==
    {Label(Obj(KeyA :> Obj(KeyK :> Obj(KeyK :> Scalar("number", <<>>)))), <<>>),
     Label(Obj(KeyA :> Scalar("number", <<>>)), <<>>)}

InitLimits ==
    /\ input \in LimitDocs
    /\ query \in {Include(ps) : ps \in LimitLists} \cup {Exclude(ps) : ps \in LimitLists}
    /\ maxDepth = 0
    /\ ret = NoCall
    /\ prev = <<>>
    /\ AuxInit

NextLimits == WithLimitsCall(LimitChoices) \/ LimitedCompileCall \/ LimitedWalkCall

SpecLimits == InitLimits /\ [][NextLimits]_vars

\* What the claim says a limit field enforces: 0 for "no check".
Enforced(field, default) ==
    IF field = <<>> THEN default ELSE IF field = <<0>> THEN 0 ELSE field[1]

\* The paths of the query longer than n bytes, in the order given.
LongerThan(n) == SelectSeq(query.rawPaths, LAMBDA p : Len(p) > n)

C12_WitnessDefault ==
    /\ Len(query.rawPaths) = MaxPathCount + 1
    /\ "limits" \notin DOMAIN query
    /\ ret.op = "Compile" /\ ret.err = <<[PathCount |-> MaxPathCount]>>

\* An over-long path parsed with the length check disabled and a depth
\* limit enforced in the same query.
C12_WitnessMixed ==
    /\ query.rawPaths = <<LongPath>>
    /\ LimitsOf(query) = Limits(<<CustomDepth>>, <<0>>, <<>>)
    /\ ret.op = "Walk" /\ ret.err = <<>>

\* A walk refused by a custom depth limit.
C12_WitnessDepth ==
    /\ LimitsOf(query).MaxDepth = <<CustomDepth>>
    /\ ret.op = "Walk" /\ ret.err = <<[Depth |-> CustomDepth + 1, MaxDepth |-> CustomDepth]>>

(***************************************************************************)
(* C13: the compiled automaton in memory.  Above, a *trieNode is modelled  *)
(* by the value of the node it points to; here the nodes lie in heap, a    *)
(* sequence indexed by address, and a pointer is an address (0 for nil),   *)
(* so that a store into a node that several walks can reach is a change of *)
(* heap the other walks see.  A memory operation takes and returns         *)
(* [heap, wrote, node]: the memory, the addresses it stored into, and the  *)
(* pointer it returns.                                                     *)
(***************************************************************************)
hNewNode ==
    [names |-> EmptyFcn, indexes |-> EmptyFcn, wildcard |-> 0, slices |-> <<>>, epsilon |-> 0,
     accepting |-> FALSE, namesMerged |-> <<>>, finalized |-> FALSE]

Mem(h, wrote, node) == [heap |-> h, wrote |-> wrote, node |-> node]

\* The memory operation F applied to the memory m, m computed first: the
\* stores of a procedure happen in program order, each on the memory the
\* one before it left.
After(m, F(_)) == IF Len(m.heap) < 0 THEN m ELSE F(m)

\* merged := newTrieNode()
hAlloc(m) == Mem(Append(m.heap, hNewNode), m.wrote, Len(m.heap) + 1)

\* A store through the pointer a: the node at a becomes n.
hStore(m, a, n) == Mem([m.heap EXCEPT ![a] = n], m.wrote \cup {a}, m.node)

RECURSIVE hMergeNodes(_, _)
RECURSIVE hMergeMap(_, _, _, _, _)
\* The loops of mergeNodes over node.names and node.indexes (field), for the
\* keys not visited yet.
hMergeMap(m, merged, node, field, keys) ==
    IF keys = {} THEN m
    ELSE Let(CHOOSE k \in keys : TRUE, LAMBDA k :
         IF k \in DOMAIN m.heap[merged][field]
         THEN After(hMergeNodes(m, <<m.heap[merged][field][k], m.heap[node][field][k]>>),
                  LAMBDA r :
                  hMergeMap(hStore(r, merged,
                                   [r.heap[merged] EXCEPT ![field] = MapPut(@, k, r.node)]),
                            merged, node, field, keys \ {k}))
         ELSE hMergeMap(hStore(m, merged,
                               [m.heap[merged] EXCEPT
                                   ![field] = MapPut(@, k, m.heap[node][field][k])]),
                        merged, node, field, keys \ {k}))

\* The wildcard and the epsilon child (field) in the loop of mergeNodes.
hMergeChild(m, merged, node, field) ==
    IF m.heap[node][field] = 0 THEN m
    ELSE IF m.heap[merged][field] # 0
    THEN After(hMergeNodes(m, <<m.heap[merged][field], m.heap[node][field]>>), LAMBDA r :
             hStore(r, merged, [r.heap[merged] EXCEPT ![field] = r.node]))
    ELSE hStore(m, merged, [m.heap[merged] EXCEPT ![field] = m.heap[node][field]])

\* One iteration of the loop of mergeNodes: node folded into merged.
hMergeInto(m, merged, node) ==
    After(IF m.heap[node].accepting
        THEN hStore(m, merged, [m.heap[merged] EXCEPT !.accepting = TRUE]) ELSE m, LAMBDA m1 :
    After(hMergeMap(m1, merged, node, "names", DOMAIN m1.heap[node].names), LAMBDA m2 :
    After(hMergeMap(m2, merged, node, "indexes", DOMAIN m2.heap[node].indexes), LAMBDA m3 :
    After(hMergeChild(m3, merged, node, "wildcard"), LAMBDA m4 :
    After(hStore(m4, merged, [m4.heap[merged] EXCEPT !.slices = @ \o m4.heap[node].slices]),
        LAMBDA m5 : hMergeChild(m5, merged, node, "epsilon"))))))

RECURSIVE hMergeFold(_, _, _, _)
hMergeFold(m, merged, nodes, i) ==
    IF i > Len(nodes) THEN Mem(m.heap, m.wrote, merged)
    ELSE hMergeFold(hMergeInto(m, merged, nodes[i]), merged, nodes, i + 1)

\* mergeNodes folding the other states into the first one, where the code
\* allocates a new state to fold them all into.
hMergeNodesInPlace(m, nodes) ==
    IF Len(nodes) = 0 THEN Mem(m.heap, m.wrote, 0)
    ELSE IF Len(nodes) = 1 THEN Mem(m.heap, m.wrote, nodes[1])
    ELSE hMergeFold(m, nodes[1], nodes, 2)

\* mergeNodes
hMergeNodes(m, nodes) ==
    IF Len(nodes) = 0 THEN Mem(m.heap, m.wrote, 0)
    ELSE IF Len(nodes) = 1 THEN Mem(m.heap, m.wrote, nodes[1])
    ELSE After(hAlloc(m), LAMBDA a : hMergeFold(a, a.node, nodes, 1))

\* mergePair
hMergePair(m, a, b) ==
    IF a = 0 THEN Mem(m.heap, m.wrote, b)
    ELSE IF b = 0 THEN Mem(m.heap, m.wrote, a)
    ELSE hMergeNodes(m, <<a, b>>)

\* trieNode.match
hMatch(m, n, key) ==
    IF Len(m.heap[n].namesMerged) > 0
    THEN Mem(m.heap, m.wrote,
             IF key \in DOMAIN m.heap[n].namesMerged[1] THEN m.heap[n].namesMerged[1][key]
             ELSE m.heap[n].wildcard)
    ELSE Let(IF key \in DOMAIN m.heap[n].names THEN m.heap[n].names[key] ELSE 0, LAMBDA named :
             IF m.heap[n].wildcard = 0 THEN Mem(m.heap, m.wrote, named)
             ELSE IF named = 0 THEN Mem(m.heap, m.wrote, m.heap[n].wildcard)
             ELSE hMergeNodes(m, <<named, m.heap[n].wildcard>>))

\* The slice children of the node nd, from position i on, that match idx.
RECURSIVE hSliceMatches(_, _, _, _)
hSliceMatches(nd, i, idx, arrLen) ==
    IF i > Len(nd.slices) THEN <<>>
    ELSE (IF SliceMatches(nd.slices[i].sel, idx, arrLen) THEN <<nd.slices[i].node>> ELSE <<>>)
           \o hSliceMatches(nd, i + 1, idx, arrLen)

\* trieNode.matchIndex
hMatchIndex(m, n, idx, arrLen) ==
    LET nd == m.heap[n]
        negIdx == idx - arrLen
        child == IF idx \in DOMAIN nd.indexes THEN nd.indexes[idx] ELSE 0
        negChild == IF negIdx # idx /\ negIdx \in DOMAIN nd.indexes THEN nd.indexes[negIdx] ELSE 0
    IN IF nd.wildcard = 0 /\ Len(nd.slices) = 0
       THEN IF negChild # 0
            THEN (IF child = 0 THEN Mem(m.heap, m.wrote, negChild)
                  ELSE hMergeNodes(m, <<child, negChild>>))
            ELSE Mem(m.heap, m.wrote, child)
       ELSE hMergeNodes(m, (IF child # 0 THEN <<child>> ELSE <<>>)
                             \o (IF negChild # 0 THEN <<negChild>> ELSE <<>>)
                             \o (IF nd.wildcard # 0 THEN <<nd.wildcard>> ELSE <<>>)
                             \o hSliceMatches(nd, 1, idx, arrLen))

\* The transition walkObject takes for key from the state trie.
hKeyState(m, trie, key) ==
    After(hMatch(m, trie, key), LAMBDA c :
        IF c.heap[trie].epsilon = 0 THEN c
        ELSE After(hMatch(c, c.heap[trie].epsilon, key), LAMBDA e : hMergePair(e, c.node, e.node)))

\* The transition walkArray takes for index idx from the state trie.
hIndexState(m, trie, idx, arrLen) ==
    After(hMatchIndex(m, trie, idx, arrLen), LAMBDA c :
        IF c.heap[trie].epsilon = 0 THEN c
        ELSE After(hMatchIndex(c, c.heap[trie].epsilon, idx, arrLen), LAMBDA e :
                 hMergePair(e, c.node, e.node)))

RECURSIVE hLoad(_, _)
RECURSIVE hLoadMap(_, _, _, _)
\* The children of the map f laid out in memory; node is the map of their
\* addresses.
hLoadMap(m, f, keys, acc) ==
    IF keys = {} THEN Mem(m.heap, m.wrote, acc)
    ELSE Let(CHOOSE k \in keys : TRUE, LAMBDA k :
         After(hLoad(m, f[k]), LAMBDA r : hLoadMap(r, f, keys \ {k}, MapPut(acc, k, r.node))))

RECURSIVE hLoadSlices(_, _, _, _)
hLoadSlices(m, slices, i, acc) ==
    IF i > Len(slices) THEN Mem(m.heap, m.wrote, acc)
    ELSE After(hLoad(m, slices[i].node), LAMBDA r :
             hLoadSlices(r, slices, i + 1, Append(acc, [sel |-> slices[i].sel, node |-> r.node])))

\* The automaton buildTrie returned, as it lies in memory: the state v and
\* the states below it each at an address, v at the last one.
hLoad(m, v) ==
    IF v.nil THEN Mem(m.heap, m.wrote, 0)
    ELSE After(hLoadMap(m, v.names, DOMAIN v.names, EmptyFcn), LAMBDA a :
         After(hLoadMap(a, v.indexes, DOMAIN v.indexes, EmptyFcn), LAMBDA b :
         After(hLoad(b, v.wildcard), LAMBDA c :
         After(hLoadSlices(c, v.slices, 1, <<>>), LAMBDA d :
         After(hLoad(d, v.epsilon), LAMBDA e :
         After(IF Len(v.namesMerged) > 0
             THEN hLoadMap(e, v.namesMerged[1], DOMAIN v.namesMerged[1], EmptyFcn)
             ELSE e, LAMBDA f :
             Mem(Append(f.heap,
                        [names |-> a.node, indexes |-> b.node, wildcard |-> c.node,
                         slices |-> d.node, epsilon |-> e.node, accepting |-> v.accepting,
                         namesMerged |-> IF Len(v.namesMerged) > 0 THEN <<f.node>> ELSE <<>>,
                         finalized |-> v.finalized]),
                 f.wrote, Len(f.heap) + 1)))))))

RECURSIVE Deref(_, _)
\* The state the pointer a leads to in the memory h: what a walk reads
\* through a.
Deref(h, a) ==
    IF a = 0 THEN NoNode
    ELSE [nil |-> FALSE,
          names |-> [k \in DOMAIN h[a].names |-> Deref(h, h[a].names[k])],
          indexes |-> [k \in DOMAIN h[a].indexes |-> Deref(h, h[a].indexes[k])],
          wildcard |-> Deref(h, h[a].wildcard),
          slices |-> [i \in 1..Len(h[a].slices) |->
                        [sel |-> h[a].slices[i].sel, node |-> Deref(h, h[a].slices[i].node)]],
          epsilon |-> Deref(h, h[a].epsilon),
          accepting |-> h[a].accepting,
          namesMerged |-> IF Len(h[a].namesMerged) > 0
                          THEN <<[k \in DOMAIN h[a].namesMerged[1] |->
                                    Deref(h, h[a].namesMerged[1][k])]>>
                          ELSE <<>>,
          finalized |-> h[a].finalized]

\* Bounds: the walks that share the query, and the calls each may make.
NumWalks == 2

MaxMoves == 3

Walks == 1..NumWalks

SharedKeys == {KeyA, KeyK}

\* A walk that has not started: no state of the automaton in hand.
Idle == [node |-> 0, val |-> NoNode, own |-> {}, wrote |-> {}, moves |-> 0]

\* The walk t after a call that took the memory to m and returned m.node;
\* val is the state the same call returns to a walk running alone.
Moved(t, m, val) ==
    [node |-> m.node, val |-> val,
     own |-> at[t].own \cup ((Len(heap) + 1)..Len(m.heap)),
     wrote |-> at[t].wrote \cup m.wrote,
     moves |-> at[t].moves + 1]

Step(t, m, val) ==
    /\ heap' = m.heap
    /\ at' = [at EXCEPT ![t] = Moved(t, m, val)]
    /\ UNCHANGED <<input, query, maxDepth, ret, prev, builds>>

Ready(t) == at[t].moves < MaxMoves /\ at[t].node # 0

\* The address of the root of the compiled automaton.
RootAddr == hLoad(Mem(<<>>, {}, 0), query.compiled).node

\* Query.Walk on a compiled query: compile returns at once and the walk
\* starts from q.compiled.
BeginWalk(t) ==
    /\ at[t].moves < MaxMoves
    /\ ~query.compiled.nil
    /\ Step(t, Mem(heap, {}, RootAddr), query.compiled)

\* walkObject: the transition for a key.
KeyStep(t) ==
    /\ Ready(t)
    /\ \E key \in SharedKeys :
          Step(t, hKeyState(Mem(heap, {}, 0), at[t].node, key), keyState(at[t].val, key))

\* walkArray: the transition for an index.
IndexStep(t) ==
    /\ Ready(t)
    /\ \E arrLen \in 1..2 : \E idx \in 0..(arrLen - 1) :
          Step(t, hIndexState(Mem(heap, {}, 0), at[t].node, idx, arrLen),
               indexState(at[t].val, idx, arrLen))

\* walkObject and walkArray handing trie.epsilon to the search or filter.
EpsilonStep(t) ==
    /\ Ready(t)
    /\ heap[at[t].node].epsilon # 0
    /\ Step(t, Mem(heap, {}, heap[at[t].node].epsilon), at[t].val.epsilon)

\* walkSearchEpsilon and walkFilterEpsilon: epsTrie.match(key).
MatchStep(t) ==
    /\ Ready(t)
    /\ \E key \in SharedKeys :
          Step(t, hMatch(Mem(heap, {}, 0), at[t].node, key), match(at[t].val, key))

\* walkSearchEpsilon and walkFilterEpsilon: epsTrie.matchIndex(idx, arrLen).
MatchIndexStep(t) ==
    /\ Ready(t)
    /\ \E arrLen \in 1..2 : \E idx \in 0..(arrLen - 1) :
          Step(t, hMatchIndex(Mem(heap, {}, 0), at[t].node, idx, arrLen),
               matchIndex(at[t].val, idx, arrLen))

\* The path lists of the shared queries: named and wildcard children, indexes
\* from both ends with a wildcard, slices, and descendant segments.
SharedLists ==
    {<<Root \o PieceA \o PieceK, Root \o PieceWild \o PieceA>>,
     <<Root \o PieceA, Root \o PieceDescK>>,
     <<Root \o Piece0 \o PieceA, Root \o PieceLast \o PieceK, Root \o PieceWild \o PieceA>>,
     <<Root \o Piece0 \o Piece0, Root \o PieceFrom1 \o PieceWild, Root \o PieceDesc0>>,
     <<Root \o PieceDescK \o PieceA, Root \o PieceDescK \o PieceWild \o PieceK>>}

InitShared ==
    /\ input = Nil
    /\ query \in {QueryCompile(Include(ps)).q : ps \in SharedLists}
    /\ maxDepth = 0
    /\ ret = NoCall
    /\ prev = <<>>
    /\ heap = hLoad(Mem(<<>>, {}, 0), query.compiled).heap
    /\ at = [t \in Walks |-> Idle]
    /\ builds = 0

NextShared ==
    \E t \in Walks :
        \/ BeginWalk(t)
        \/ KeyStep(t)
        \/ IndexStep(t)
        \/ EpsilonStep(t)
        \/ MatchStep(t)
        \/ MatchIndexStep(t)

SpecShared == InitShared /\ [][NextShared]_vars

\* C13: when walks share a compiled query, under every interleaving of their
\* calls no state of the compiled automaton (its caches included) changes,
\* the root is still the automaton the query holds, every store a walk made
\* went to a state that walk allocated, and the state each walk has in hand
\* is the state the same calls return to a walk running alone.
C13_SharedAutomatonNotWritten ==
    /\ \A a \in 1..RootAddr : heap[a] = hLoad(Mem(<<>>, {}, 0), query.compiled).heap[a]
    /\ Deref(heap, RootAddr) = query.compiled
    /\ \A t \in Walks :
          /\ at[t].wrote \subseteq at[t].own
          /\ at[t].own \cap (1..RootAddr) = {}
          /\ Deref(heap, at[t].node) = at[t].val

\* Both walks have allocated and written composite states of their own, and
\* hold different ones.
C13_Witness ==
    /\ \A t \in Walks : at[t].wrote # {} /\ at[t].node \in at[t].own
    /\ at[1].node # at[2].node
    /\ at[1].own \cap at[2].own = {}

(***************************************************************************)
(* C14: the uses of one query.  query is the caller's variable q; every    *)
(* use is remembered in prev with whether buildTrie ran in it (it runs     *)
(* when the query the procedure works on has compiled = nil), whether it   *)
(* succeeded, and the automaton it worked with; builds counts the runs of  *)
(* buildTrie.                                                              *)
(***************************************************************************)
\* Bound: the uses of the query.
MaxUses == 3

Use(op, built, ok, trie) == [op |-> op, built |-> built, ok |-> ok, trie |-> trie]

Used(u) ==
    /\ prev' = Append(prev, u)
    /\ builds' = IF u.built THEN builds + 1 ELSE builds
    /\ UNCHANGED <<input, maxDepth, heap, at>>

\* out, err := q.Walk(tree): the receiver is a pointer, compile stores the
\* automaton in q.
WalkUse ==
    /\ Len(prev) < MaxUses
    /\ Let(QueryWalk(query, input, maxDepth), LAMBDA r :
           /\ query' = r.q
           /\ \E e \in (IF r.errs = {} THEN {<<>>} ELSE {<<x>> : x \in r.errs}) :
                 ret' = [op |-> "Walk", v |-> r.v, err |-> e]
           /\ Used(Use("Walk", query.compiled.nil, r.errs = {}, r.q.compiled)))

\* out, err := Shake(input, q): the Query is passed by value, the Walk inside
\* compiles Shake's copy.
ShakeUse ==
    /\ Len(prev) < MaxUses
    /\ Let(Shake(input, query, maxDepth), LAMBDA r :
           /\ \E e \in (IF r.errs = {} THEN {<<>>} ELSE {<<x>> : x \in r.errs}) :
                 ret' = [op |-> "Shake", v |-> r.v, err |-> e]
           /\ Used(Use("Shake", query.compiled.nil, r.errs = {}, compile(query).q.compiled)))
    /\ UNCHANGED query

\* c, err := q.Compile(): the receiver is a value, the compiled query is the
\* one returned.
CompileUse ==
    /\ Len(prev) < MaxUses
    /\ Let(QueryCompile(query), LAMBDA r :
           /\ ret' = [op |-> "Compile", v |-> Nil, err |-> r.err]
           /\ Used(Use("Compile", query.compiled.nil, r.err = <<>>, r.q.compiled)))
    /\ UNCHANGED query

InitUses ==
    /\ input \in CompileDocs
    /\ query \in {Include(ps) : ps \in PathSeqs(2)} \cup {Exclude(ps) : ps \in PathSeqs(2)}
    /\ maxDepth = 0
    /\ ret = NoCall
    /\ prev = <<>>
    /\ AuxInit

NextUses == WalkUse \/ ShakeUse \/ CompileUse

SpecUses == InitUses /\ [][NextUses]_vars

\* The uses before use i that left the automaton in the caller's query: the
\* successful Walk calls.
StoredBefore(i) == \E j \in 1..(i - 1) : prev[j].op = "Walk" /\ prev[j].ok

WithPrefixCall(prefixes) ==
    /\ \E x \in prefixes : query' = WithPrefix(query, x)
    /\ prev' = <<[wasCompiled |-> ~query.compiled.nil]>>
    /\ ret' = [op |-> "WithPrefix", v |-> Nil, err |-> <<>>]
    /\ UNCHANGED <<input, maxDepth>>
    /\ UNCHANGED aux

\* Prefixes: none, a child, the root, a descendant, and text that is no path.
Prefixes == {<<>>, Root \o PieceK, Root, Root \o PieceDescK, <<"k">>}

\* Path texts: relative (no leading "$"), absolute, and empty.
ScopedPaths == {PieceA, PieceK, PieceWild, Root \o PieceA, Root \o PieceK \o PieceK, <<>>}

ScopedLists == {<<p>> : p \in ScopedPaths} \cup {<<p, r>> : p \in ScopedPaths, r \in ScopedPaths}

ScopedDocs ==
    {Label(Obj(KeyK :> Obj(KeyA :> Scalar("number", <<>>) @@ KeyK :> Scalar("number", <<>>))
               @@ KeyA :> Scalar("number", <<>>)), <<>>),
     Label(Obj(KeyK :> Arr(<<Obj(KeyA :> Scalar("number", <<>>)), Scalar("number", <<>>)>>)),
           <<>>)}

InitPrefix ==
    /\ input \in ScopedDocs
    /\ query \in {Include(ps) : ps \in ScopedLists} \cup {Exclude(ps) : ps \in ScopedLists}
    /\ maxDepth = 0
    /\ ret = NoCall
    /\ prev = <<>>
    /\ AuxInit

NextPrefix == WithPrefixCall(Prefixes) \/ Compile \/ Walk

SpecPrefix == InitPrefix /\ [][NextPrefix]_vars

\* The query without a prefix whose paths are those of q, each path that
\* does not start with "$" replaced by the prefix followed by the path.
Rewritten(q) ==
    [mode |-> q.mode,
     rawPaths |-> [i \in 1..Len(q.rawPaths) |->
                     IF Len(q.rawPaths[i]) > 0 /\ q.rawPaths[i][1] = "$" THEN q.rawPaths[i]
                     ELSE q.prefix \o q.rawPaths[i]],
     prefix |-> <<>>, compiled |-> NoNode]

\* C15: a query with a prefix compiles to the automaton (or fails with the
\* error) of the prefix-free query whose relative paths are the prefix
\* followed by the path and whose paths starting with "$" are unchanged, and
\* walks to the same result; the query WithPrefix returns holds no
\* automaton, also when the query it was applied to held one.
C15_PrefixScopesRelativePaths ==
    /\ QueryBuildTrie(query) = QueryBuildTrie(Rewritten(query))
    /\ ~query.compiled.nil => query.compiled = QueryBuildTrie(Rewritten(query)).trie
    /\ ret.op = "WithPrefix" => query.compiled.nil
    /\ ret.op = "Walk" =>
          Let(QueryWalk(Rewritten(query), input, maxDepth), LAMBDA r :
              IF r.errs = {} THEN ret.err = <<>> /\ ret.v = r.v
              ELSE ret.err # <<>> /\ ret.err[1] \in r.errs)

\* A prefix given to a query that was already compiled has taken effect in
\* the walk after it: a relative and an absolute path, and a result that is
\* not the one of the paths without the prefix.
C15_Witness ==
    /\ prev # <<>> /\ prev[1].wasCompiled
    /\ ret.op = "Walk" /\ ret.err = <<>>
    /\ query.prefix = Root \o PieceK
    /\ query.rawPaths = <<PieceA, Root \o PieceA>>
    /\ ret.v # Nil
    /\ ret.v # QueryWalk(WithPrefix(query, <<>>), input, maxDepth).v

(***************************************************************************)
(* C16: positions of array elements.  The payload of a labelled leaf is    *)
(* its position in the input document, so a leaf of the output tells which *)
(* element of the original array it was.                                   *)
(***************************************************************************)
\* The leaves of the input that are elements of an array.
ElementLeaves == {l \in Leaves(input) : Len(l) > 0 /\ l[Len(l)][1] = "#"}

\* The position l is at or below a position the query selects, every index,
\* negative index and slice counted in the arrays of the input.
SelectedAbove(l) ==
    \E p \in SelectedBy(query, input) : Len(p) <= Len(l) /\ SubSeq(l, 1, Len(p)) = p

\* The number i of the array step IdxStep(i).
StepNumber(step) == CHOOSE i \in 1..9 : IdxStep(i) = step

RECURSIVE InOriginalOrder(_, _)
\* In every array of v (v at depth d of the output) the elements come in the
\* order their leaves had in the input.
InOriginalOrder(v, d) ==
    IF IsObj(v) THEN \A key \in DOMAIN v.f : InOriginalOrder(v.f[key], d + 1)
    ELSE IF IsArr(v)
    THEN /\ \A i \in 1..Len(v.e) : InOriginalOrder(v.e[i], d + 1)
         /\ \A i \in 1..Len(v.e) : \A j \in (i + 1)..Len(v.e) :
               \A a \in Leaves(v.e[i]) : \A b \in Leaves(v.e[j]) :
                   StepNumber(a[d + 1]) < StepNumber(b[d + 1])
    ELSE TRUE

\* C16: an exclude walk removes an element of an array exactly when a path
\* selects it (or a node above it) with indexes, negative indexes and slices
\* counted in the original array, never in a pruned copy, and the elements
\* kept, in either mode, stay in their original order.
C16_IndexesCountedInOriginalArray ==
    Walked =>
        /\ query.mode = "exclude" =>
              \A l \in ElementLeaves : (l \in Leaves(ret.v)) <=> ~SelectedAbove(l)
        /\ InOriginalOrder(ret.v, 0)

(***************************************************************************)
(* C17: mergeValues on its own.  input holds the two arguments; the direct *)
(* value is labelled below "d" and the epsilon value below "e", so every   *)
(* leaf of the result tells which argument it came from.                   *)
(***************************************************************************)
\* Bound: number of nodes of each argument of mergeValues.
MergeNodes == 3

MergeCall ==
    /\ ret.op = "none"
    /\ ret' = [op |-> "mergeValues", v |-> mergeValues(input.direct, input.eps), err |-> <<>>]
    /\ UNCHANGED <<input, query, maxDepth, prev>>
    /\ UNCHANGED aux

InitMerge ==
    /\ input \in [direct : {Label(v, <<"d">>) : v \in Shapes(MergeNodes)},
                   eps : {Label(v, <<"e">>) : v \in Shapes(MergeNodes)}]
    /\ query = Include(<<>>)
    /\ maxDepth = 0
    /\ ret = NoCall
    /\ prev = <<>>
    /\ AuxInit

NextMerge == MergeCall

SpecMerge == InitMerge /\ [][NextMerge]_vars

RECURSIVE MergedFrom(_, _, _)
\* r is what the claim says of the direct value a and the epsilon value b.
MergedFrom(r, a, b) ==
    IF a = Nil THEN r = b
    ELSE IF b = Nil THEN r = a
    ELSE IF IsObj(a) /\ IsObj(b)
    THEN /\ IsObj(r)
         /\ DOMAIN r.f = (DOMAIN a.f) \cup (DOMAIN b.f)
         /\ \A key \in (DOMAIN a.f) \ (DOMAIN b.f) : r.f[key] = a.f[key]
         /\ \A key \in (DOMAIN b.f) \ (DOMAIN a.f) : r.f[key] = b.f[key]
         /\ \A key \in (DOMAIN a.f) \cap (DOMAIN b.f) : MergedFrom(r.f[key], a.f[key], b.f[key])
    ELSE r = a

\* C17: mergeValues(direct, eps) is the other value when one is none; the
\* union of the keys, common keys merged recursively, when both are objects;
\* and the direct value otherwise.  So nothing of the direct value is ever
\* lost, and unless both are objects nothing of the epsilon value is kept
\* beside a direct value.
C17_MergeValuesDirectWins ==
    ret.op = "mergeValues" =>
        /\ MergedFrom(ret.v, input.direct, input.eps)
        /\ Leaves(input.direct) \subseteq Leaves(ret.v)
        /\ (input.direct # Nil /\ ~(IsObj(input.direct) /\ IsObj(input.eps))) =>
              ret.v = input.direct /\ Leaves(ret.v) \cap Leaves(input.eps) = {}

\* Two objects with a common key holding objects were merged below that key.
C17_Witness ==
    /\ ret.op = "mergeValues"
    /\ IsObj(input.direct) /\ IsObj(input.eps)
    /\ \E key \in (DOMAIN input.direct.f) \cap (DOMAIN input.eps.f) :
          /\ IsObj(input.direct.f[key]) /\ IsObj(input.eps.f[key])
          /\ Leaves(ret.v.f[key]) \cap Leaves(input.direct) # {}
          /\ Leaves(ret.v.f[key]) \cap Leaves(input.eps) # {}

\* Below a common key a direct scalar met an epsilon object with a leaf: the
\* scalar is in the result and the leaf is not.
C17_WitnessDiscarded ==
    /\ ret.op = "mergeValues"
    /\ IsObj(input.direct) /\ IsObj(input.eps)
    /\ \E key \in (DOMAIN input.direct.f) \cap (DOMAIN input.eps.f) :
          /\ ~IsObj(input.direct.f[key]) /\ input.direct.f[key] # Nil
          /\ Leaves(input.eps.f[key]) # {}
          /\ ret.v.f[key] = input.direct.f[key]

(***************************************************************************)
(* C18: empty containers in include results.                               *)
(***************************************************************************)
RECURSIVE CopiedOrFilled(_, _, _)
\* The output value v, made from the input node orig at position pos, is
\* either orig itself at or below a selected position (the verbatim copy of
\* an accepting match) or a container with at least one entry, each entry
\* made in the same way from a member of orig (elements of an array may have
\* moved up).
CopiedOrFilled(v, orig, pos) ==
    \/ v = orig /\ SelectedAbove(pos)
    \/ /\ IsObj(v) /\ IsObj(orig)
       /\ DOMAIN v.f # {}
       /\ DOMAIN v.f \subseteq DOMAIN orig.f
       /\ \A key \in DOMAIN v.f : CopiedOrFilled(v.f[key], orig.f[key], Append(pos, key))
    \/ /\ IsArr(v) /\ IsArr(orig)
       /\ Len(v.e) > 0
       /\ \A i \in 1..Len(v.e) : \E j \in i..Len(orig.e) :
             CopiedOrFilled(v.e[i], orig.e[j], Append(pos, IdxStep(j)))

\* C18: an include walk returns none, or a value in which every object and
\* array has an entry unless it lies in the verbatim copy of a selected
\* node: a walked object or array left without entries, at any depth and
\* also in the search below a descendant segment, is dropped and adds no
\* key or element to its ancestors.
C18_IncludeDropsEmptied ==
    (Walked /\ query.mode = "include" /\ ret.v # Nil) => CopiedOrFilled(ret.v, input, <<>>)

\* The paths $.a.k and $..k found nothing in the member a (an object with a
\* member, walked and left empty) while the member k was kept: a is not in
\* the result.
C18_Witness ==
    /\ Walked /\ query.mode = "include"
    /\ query.rawPaths = <<Root \o PieceA \o PieceK, Root \o PieceDescK>>
    /\ IsObj(input) /\ KeyA \in DOMAIN input.f /\ IsObj(input.f[KeyA])
    /\ DOMAIN input.f[KeyA].f # {}
    /\ IsObj(ret.v) /\ DOMAIN ret.v.f = {KeyK}

\* The verbatim copy of a selected node holds an empty container.
C18_WitnessCopiedEmpty ==
    /\ Walked /\ query.mode = "include"
    /\ IsObj(ret.v) /\ KeyA \in DOMAIN ret.v.f
    /\ ret.v.f[KeyA] \in {Obj(EmptyFcn), Arr(<<>>), Arr(<<Arr(<<>>)>>)}

(***************************************************************************)
(* C19: mergeNodes on its own, over the states of compiled automata.       *)
(* input is the list of candidates (addresses in heap); the call is made   *)
(* in memory and, in at[1].val, on the values.                             *)
(***************************************************************************)
\* Bounds: the candidates of a merge and the length of the key sequences.
MaxCandidates == 3

MaxSteps == 3

RECURSIVE Derefs(_, _, _)
\* The states the pointers ptrs[i..] lead to.
Derefs(h, ptrs, i) ==
    IF i > Len(ptrs) THEN <<>> ELSE <<Deref(h, ptrs[i])>> \o Derefs(h, ptrs, i + 1)

\* merged := mergeNodes(nodes)
MergeNodesCall ==
    /\ at[1].moves = 0
    /\ Step(1, hMergeNodes(Mem(heap, {}, 0), input), mergeNodes(Derefs(heap, input, 1)))

RECURSIVE AddressLists(_, _)
\* The lists of at most n addresses out of 1..top.
AddressLists(top, n) ==
    IF n = 0 THEN {<<>>}
    ELSE AddressLists(top, n - 1)
         \cup {Append(l, a) : l \in {x \in AddressLists(top, n - 1) : Len(x) = n - 1},
                              a \in 1..top}

InitStates ==
    /\ query \in {QueryCompile(Include(ps)).q : ps \in SharedLists}
    /\ heap = hLoad(Mem(<<>>, {}, 0), query.compiled).heap
    /\ input \in AddressLists(Len(heap), MaxCandidates)
    /\ maxDepth = 0
    /\ ret = NoCall
    /\ prev = <<>>
    /\ at = [t \in {1} |-> Idle]
    /\ builds = 0

NextStates == MergeNodesCall

SpecStates == InitStates /\ [][NextStates]_vars

\* One step of a walk: an object key, or an index of an array of arrLen
\* elements.
KeySteps ==
    {[t |-> "key", key |-> k] : k \in SharedKeys}
    \cup {[t |-> "idx", idx |-> i, arrLen |-> 2] : i \in 0..1}
    \cup {[t |-> "idx", idx |-> 0, arrLen |-> 1]}

\* The children of the state n that the step st leads to, each on its own.
Kids(n, st) ==
    IF st.t = "key"
    THEN (IF st.key \in DOMAIN n.names THEN {n.names[st.key]} ELSE {})
         \cup (IF n.wildcard.nil THEN {} ELSE {n.wildcard})
    ELSE (IF st.idx \in DOMAIN n.indexes THEN {n.indexes[st.idx]} ELSE {})
         \cup (IF (st.idx - st.arrLen) \in DOMAIN n.indexes
               THEN {n.indexes[st.idx - st.arrLen]} ELSE {})
         \cup (IF n.wildcard.nil THEN {} ELSE {n.wildcard})
         \cup {n.slices[i].node : i \in {j \in 1..Len(n.slices) :
                                            SliceMatches(n.slices[j].sel, st.idx, st.arrLen)}}

RECURSIVE Accepts(_, _, _)
RECURSIVE AcceptsBelow(_, _, _)
\* The state n matches the steps seq[i..]: they lead from n to an accepting
\* state, through children and through the descent below n.
Accepts(n, seq, i) ==
    \/ i > Len(seq) /\ n.accepting
    \/ i <= Len(seq) /\ \E c \in Kids(n, seq[i]) : Accepts(c, seq, i + 1)
    \/ ~n.epsilon.nil /\ AcceptsBelow(n.epsilon, seq, i)

\* The descent state e matches seq[i..] at this level or at a deeper one.
AcceptsBelow(e, seq, i) ==
    /\ i <= Len(seq)
    /\ \/ \E c \in Kids(e, seq[i]) : Accepts(c, seq, i + 1)
       \/ AcceptsBelow(e, seq, i + 1)

RECURSIVE StepSeqs(_)
StepSeqs(n) ==
    IF n = 0 THEN {<<>>}
    ELSE StepSeqs(n - 1) \cup {Append(q, st) : q \in StepSeqs(n - 1), st \in KeySteps}

\* The fields of the merge of the states cands, as the claim gives them.
MergedFields(r, cands) ==
    /\ ~r.nil
    /\ r.accepting <=> \E i \in 1..Len(cands) : cands[i].accepting
    /\ DOMAIN r.names = UNION {DOMAIN cands[i].names : i \in 1..Len(cands)}
    /\ DOMAIN r.indexes = UNION {DOMAIN cands[i].indexes : i \in 1..Len(cands)}
    /\ \A key \in DOMAIN r.names :
          \A i \in 1..Len(cands) :
              (key \in DOMAIN cands[i].names
               /\ \A j \in 1..Len(cands) : j # i => key \notin DOMAIN cands[j].names)
              => r.names[key] = cands[i].names[key]
    /\ r.wildcard.nil <=> \A i \in 1..Len(cands) : cands[i].wildcard.nil
    /\ r.epsilon.nil <=> \A i \in 1..Len(cands) : cands[i].epsilon.nil
    /\ \A i \in 1..Len(cands) :
          /\ (~cands[i].wildcard.nil
               /\ \A j \in 1..Len(cands) : j # i => cands[j].wildcard.nil)
              => r.wildcard = cands[i].wildcard
          /\ (~cands[i].epsilon.nil
               /\ \A j \in 1..Len(cands) : j # i => cands[j].epsilon.nil)
              => r.epsilon = cands[i].epsilon
    /\ Len(r.slices) = Len(cands[1].slices) + (IF Len(cands) > 1 THEN Len(cands[2].slices) ELSE 0)
                         + (IF Len(cands) > 2 THEN Len(cands[3].slices) ELSE 0)
                         + (IF Len(cands) > 3 THEN Len(cands[4].slices) ELSE 0)
    /\ \A i \in 1..Len(cands[1].slices) : r.slices[i] = cands[1].slices[i]

\* The merge r of the candidates cands is what the claim says.
MergedAsClaimed(r, cands) ==
    /\ Len(cands) = 0 => r.nil
    /\ Len(cands) = 1 => r = cands[1]
    /\ Len(cands) >= 2 => MergedFields(r, cands)
    /\ Len(cands) >= 1 =>
          \A seq \in StepSeqs(MaxSteps) :
              Accepts(r, seq, 1) <=> \E i \in 1..Len(cands) : Accepts(cands[i], seq, 1)

\* C19: mergeNodes of no candidate is no match, of one candidate that
\* candidate, of more a new state with the OR of the accepting flags, the
\* per-key union of the name and index maps, the union of the wildcard and
\* of the epsilon children and the concatenation of the slice lists; it
\* matches a sequence of keys and indexes exactly when a candidate does; and
\* the call changes no state that existed before it.
C19_MergeNodesIsUnion ==
    at[1].moves = 1 =>
        /\ MergedAsClaimed(at[1].val, Derefs(heap, input, 1))
        /\ Deref(heap, at[1].node) = at[1].val
        /\ \A a \in 1..RootAddr : heap[a] = hLoad(Mem(<<>>, {}, 0), query.compiled).heap[a]
        /\ Len(input) = 1 => at[1].node = input[1] /\ Len(heap) = RootAddr
        /\ Len(input) >= 2 => at[1].node > RootAddr

\* Three different states were merged, two of them with a child for the
\* same key, and the merged state matches a sequence.
C19_Witness ==
    /\ at[1].moves = 1 /\ Len(input) = 3
    /\ input[1] # input[2] /\ input[2] # input[3] /\ input[1] # input[3]
    /\ (DOMAIN heap[input[1]].names) \cap (DOMAIN heap[input[2]].names) # {}
    /\ \E seq \in StepSeqs(MaxSteps) : Len(seq) >= 2 /\ Accepts(at[1].val, seq, 1)

(***************************************************************************)
(* C20: the cache of finalize.  input is the address of a state of the     *)
(* compiled automaton (the states of its cache included); the lookup is    *)
(* made on it as compiled, and compared with the lookup on the same state  *)
(* without the finalize pass.                                              *)
(***************************************************************************)
RECURSIVE Unfinalized(_)
\* The state n as insert built it: no cache, not finalized, here or below.
Unfinalized(n) ==
    IF n.nil THEN n
    ELSE [nil |-> FALSE,
          names |-> [k \in DOMAIN n.names |-> Unfinalized(n.names[k])],
          indexes |-> [k \in DOMAIN n.indexes |-> Unfinalized(n.indexes[k])],
          wildcard |-> Unfinalized(n.wildcard),
          slices |-> [i \in 1..Len(n.slices) |->
                        [sel |-> n.slices[i].sel, node |-> Unfinalized(n.slices[i].node)]],
          epsilon |-> Unfinalized(n.epsilon),
          accepting |-> n.accepting,
          namesMerged |-> <<>>,
          finalized |-> FALSE]

KeyZ == <<"z">>

\* Keys of a lookup: with a named child, and without one.
LookupKeys == SharedKeys \cup {KeyZ}

\* child := s.match(key), s the state at input
MatchCall ==
    /\ ret.op = "none"
    /\ \E key \in LookupKeys :
          /\ ret' = [op |-> "match", v |-> key, err |-> <<>>]
          /\ Let(hMatch(Mem(heap, {}, 0), input, key), LAMBDA m :
                 /\ heap' = m.heap
                 /\ at' = [at EXCEPT ![1] = Moved(1, m, match(Deref(heap, input), key))])
    /\ UNCHANGED <<input, query, maxDepth, prev, builds>>

\* Path lists with a named and a wildcard child on one state: at the root,
\* below a name, below a descendant segment, and on a state of the cache.
CacheLists ==
    SharedLists
    \cup {<<Root \o PieceA \o PieceK, Root \o PieceWild \o PieceA, Root \o PieceA \o PieceWild>>,
          <<Root \o PieceA, Root \o PieceWild \o PieceK>>,
          <<Root \o PieceK \o PieceA \o PieceK, Root \o PieceK \o PieceWild>>,
          <<Root \o PieceDescK, Root \o PieceDesc0 \o PieceA, Root \o PieceDesc0 \o PieceWild>>}

InitCache ==
    /\ query \in {QueryCompile(Include(ps)).q : ps \in CacheLists}
                    \cup {QueryCompile(Exclude(ps)).q : ps \in CacheLists}
    /\ heap = hLoad(Mem(<<>>, {}, 0), query.compiled).heap
    /\ input \in 1..Len(heap)
    /\ maxDepth = 0
    /\ ret = NoCall
    /\ prev = <<>>
    /\ at = [t \in {1} |-> Idle]
    /\ builds = 0

NextCache == MatchCall

SpecCache == InitCache /\ [][NextCache]_vars

\* The two states are no match together, or have the same accepting flag
\* and match the same sequences of keys and indexes.
SameState(r, u) ==
    /\ r.nil <=> u.nil
    /\ ~r.nil =>
          /\ r.accepting <=> u.accepting
          /\ \A seq \in StepSeqs(MaxSteps) : Accepts(r, seq, 1) <=> Accepts(u, seq, 1)

\* The documents walked with and without the finalize pass.
CacheDocs == {Label(v, <<>>) : v \in Shapes(MergeNodes)}

\* C20: the lookup match(s, k) on a state of the compiled automaton and the
\* lookup on the same state without the finalize pass are no match
\* together, or have the same accepting flag and match the same sequences;
\* a finalized state has a cache exactly when it has a named and a wildcard
\* child, with an entry for each name; the automaton without the pass is the
\* one insert built; and walks over it return what walks over the compiled
\* automaton return.
C20_CacheIsPureOptimisation ==
    /\ Unfinalized(query.compiled) = insertPaths(newTrieNode, parseAll(query, 1, <<>>, <<>>).paths, 1)
    /\ Let(Deref(heap, input), LAMBDA s :
           /\ s.finalized =>
                 /\ Len(s.namesMerged) > 0 <=> (DOMAIN s.names # {} /\ ~s.wildcard.nil)
                 /\ Len(s.namesMerged) > 0 => DOMAIN s.namesMerged[1] = DOMAIN s.names
           /\ ret.op = "match" =>
                 /\ at[1].val = Deref(heap, at[1].node)
                 /\ SameState(at[1].val, match(Unfinalized(s), ret.v)))
    /\ (ret.op = "none" /\ input = RootAddr) =>
          \A d \in CacheDocs :
              walk(newWalker(query.mode = "include", 0), d, query.compiled, 0)
                = walk(newWalker(query.mode = "include", 0), d, Unfinalized(query.compiled), 0)

\* A lookup answered from the cache: the state has a cache with the key, and
\* the state returned matches a sequence through the named child and one
\* through the wildcard child.
C20_Witness ==
    /\ ret.op = "match"
    /\ Len(heap[input].namesMerged) > 0
    /\ ret.v \in DOMAIN heap[input].namesMerged[1]
    /\ at[1].node = heap[input].namesMerged[1][ret.v]
    /\ \E seq \in StepSeqs(MaxSteps) :
          /\ Accepts(at[1].val, seq, 1)
          /\ ~Accepts(Deref(heap, heap[input].names[ret.v]), seq, 1)
    /\ \E seq \in StepSeqs(MaxSteps) :
          /\ Accepts(at[1].val, seq, 1)
          /\ ~Accepts(Deref(heap, heap[input].wildcard), seq, 1)

\* A key without a named child on a state with a cache: the lookup falls
\* back to the wildcard child.
C20_WitnessFallback ==
    /\ ret.op = "match" /\ ret.v = KeyZ
    /\ Len(heap[input].namesMerged) > 0
    /\ at[1].node = heap[input].wildcard

(***************************************************************************)
(* C21: matchIndex on its own.  The state is the root of an automaton      *)
(* compiled from paths whose first segment is an index, a negative index,  *)
(* a wildcard or a slice; input holds the index and the array length of    *)
(* the call.                                                               *)
(***************************************************************************)
\* Bound: the longest array an index is looked up in.
MaxArrLen == 3

Piece1 == <<"[", "1", "]">>

PieceNeg2 == <<"[", "-", "2", "]">>

PieceEven == <<"[", ":", ":", "2", "]">>

\* First segments: every kind of edge matchIndex looks at.
IndexPieces == {Piece0, Piece1, PieceLast, PieceNeg2, PieceWild, PieceFrom1, PieceEven}

\* What follows the first segment: nothing, or a name.
IndexTails == {<<>>, PieceA, PieceK}

IndexPaths == {Root \o p \o t : p \in IndexPieces, t \in IndexTails}

\* One or two paths, and three paths with one edge of every kind.
IndexLists ==
    {<<p>> : p \in IndexPaths} \cup {<<p, r>> : p \in IndexPaths, r \in IndexPaths}
    \cup {<<Root \o i \o PieceA, Root \o s \o PieceK, Root \o PieceWild \o t>> :
             i \in {Piece1, PieceLast}, s \in {PieceFrom1, PieceEven}, t \in IndexTails}

\* The slow path of matchIndex: every matching source is collected and merged.
matchIndexSlow(n, idx, arrLen) ==
    LET negIdx == idx - arrLen
        m1 == IF idx \in DOMAIN n.indexes THEN <<n.indexes[idx]>> ELSE <<>>
        m2 == IF negIdx # idx /\ negIdx \in DOMAIN n.indexes
              THEN <<n.indexes[negIdx]>> ELSE <<>>
        m3 == IF ~n.wildcard.nil THEN <<n.wildcard>> ELSE <<>>
    IN mergeNodes(m1 \o m2 \o m3 \o sliceMatches(n, 1, idx, arrLen))

\* child := root.matchIndex(idx, arrLen)
MatchIndexCall ==
    /\ ret.op = "none"
    /\ \E arrLen \in 1..MaxArrLen : \E idx \in 0..(arrLen - 1) :
          /\ input' = [idx |-> idx, arrLen |-> arrLen]
          /\ ret' = [op |-> "matchIndex", v |-> matchIndex(query.compiled, idx, arrLen),
                     err |-> <<>>]
    /\ UNCHANGED <<query, maxDepth, prev>>
    /\ UNCHANGED aux

InitIndex ==
    /\ input = Nil
    /\ query \in {QueryCompile(Include(ps)).q : ps \in IndexLists}
    /\ maxDepth = 0
    /\ ret = NoCall
    /\ prev = <<>>
    /\ AuxInit

NextIndex == MatchIndexCall

SpecIndex == InitIndex /\ [][NextIndex]_vars

RECURSIVE KeysInOrder(_)
\* The integers of the set ks as a sequence, the largest first.
KeysInOrder(ks) ==
    IF ks = {} THEN <<>>
    ELSE LET top == CHOOSE k \in ks : \A j \in ks : j <= k
         IN <<top>> \o KeysInOrder(ks \ {top})

\* The targets of the edges of s whose selector matches index i of an array
\* of n elements: index edges, then the wildcard edge, then slice edges.
MatchingTargets(s, i, n) ==
    LET keys == KeysInOrder({k \in DOMAIN s.indexes : IndexMatches(IndexSelector(k), i, n)})
        hits == {j \in 1..Len(s.slices) : SliceMatches(s.slices[j].sel, i, n)}
    IN [x \in 1..Len(keys) |-> s.indexes[keys[x]]]
       \o (IF s.wildcard.nil THEN <<>> ELSE <<s.wildcard>>)
       \o [x \in 1..Cardinality(hits) |->
              s.slices[CHOOSE j \in hits : Cardinality({h \in hits : h < j}) = x - 1].node]

\* C21: for 0 <= i < n, matchIndex(s, i, n) is no match exactly when no
\* index, wildcard or slice edge of s has a selector matching (i, n), and is
\* otherwise the union of the targets of exactly the matching edges; an index
\* edge -j matches i exactly when i = n - j; and on a state without wildcard
\* and slices the fast path returns what the general path returns.
C21_MatchIndexIsUnionOfMatching ==
    /\ \A n \in 1..MaxArrLen : \A i \in 0..(n - 1) : \A j \in 1..(MaxArrLen + 1) :
          IndexMatches(IndexSelector(-j), i, n) <=> i = n - j
    /\ ret.op = "matchIndex" =>
          Let(MatchingTargets(query.compiled, input.idx, input.arrLen), LAMBDA cands :
              /\ ret.v.nil <=> Len(cands) = 0
              /\ MergedAsClaimed(ret.v, cands)
              /\ (query.compiled.wildcard.nil /\ Len(query.compiled.slices) = 0)
                    => ret.v = matchIndexSlow(query.compiled, input.idx, input.arrLen))

\* The fast path merged the children of a non-negative and of a negative
\* index edge that resolve to the same element.
C21_Witness ==
    /\ ret.op = "matchIndex"
    /\ query.compiled.wildcard.nil /\ Len(query.compiled.slices) = 0
    /\ Len(MatchingTargets(query.compiled, input.idx, input.arrLen)) = 2
    /\ \E k \in DOMAIN ret.v.names : k \notin DOMAIN query.compiled.indexes[input.idx].names

\* The general path merged an index, the wildcard and a slice edge.
C21_WitnessGeneral ==
    /\ ret.op = "matchIndex"
    /\ Len(query.compiled.slices) > 0
    /\ Len(MatchingTargets(query.compiled, input.idx, input.arrLen)) = 3

\* A negative index edge beyond the start of the array matches no index.
C21_WitnessNoMatch ==
    /\ ret.op = "matchIndex"
    /\ DOMAIN query.compiled.indexes = {-2}
    /\ input.arrLen = 1
    /\ ret.v.nil

(***************************************************************************)
(* C22: SliceSelector.Matches on its own, against the selection procedure  *)
(* of RFC 9535 (section 2.3.4.2.2).  input holds the selector and the      *)
(* array length.                                                           *)
(***************************************************************************)
\* Bounds: the largest absolute value of a slice bound or step, and of the
\* index asked for beyond either end of the array.
MaxSliceVal == 4

MaxOutside == 2

\* An optional bound: absent, or an integer.
SliceVals == {<<>>} \cup {<<v>> : v \in (-MaxSliceVal)..MaxSliceVal}

\* ok := sel.Matches(idx, arrLen)
SliceMatchesCall ==
    /\ ret.op = "none"
    /\ \E idx \in (-MaxOutside)..(input.arrLen + MaxOutside) :
          ret' = [op |-> "Matches", v |-> SliceMatches(input.sel, idx, input.arrLen),
                  err |-> <<>>, idx |-> idx]
    /\ UNCHANGED <<input, query, maxDepth, prev>>
    /\ UNCHANGED aux

InitSlice ==
    /\ input \in {[sel |-> SliceSelector(start, end, step), arrLen |-> n] :
                     start \in SliceVals, end \in SliceVals, step \in SliceVals,
                     n \in 0..MaxArrLen}
    /\ query = Include(<<>>)
    /\ maxDepth = 0
    /\ ret = NoCall
    /\ prev = <<>>
    /\ AuxInit

NextSlice == SliceMatchesCall

SpecSlice == InitSlice /\ [][NextSlice]_vars

\* RFC 9535: Normalize(i, len).
RfcNormalize(i, len) == IF i >= 0 THEN i ELSE len + i

RfcMin(a, b) == IF a < b THEN a ELSE b

RfcMax(a, b) == IF a > b THEN a ELSE b

\* RFC 9535: Bounds(start, end, step, len), as <<lower, upper>>.
RfcBounds(start, end, step, len) ==
    IF step >= 0
    THEN <<RfcMin(RfcMax(RfcNormalize(start, len), 0), len),
           RfcMin(RfcMax(RfcNormalize(end, len), 0), len)>>
    ELSE <<RfcMin(RfcMax(RfcNormalize(end, len), -1), len - 1),
           RfcMin(RfcMax(RfcNormalize(start, len), -1), len - 1)>>

RECURSIVE RfcUp(_, _, _)
\* RFC 9535: i = lower; WHILE i < upper: select a(i); i = i + step.
RfcUp(i, upper, step) == IF i < upper THEN {i} \cup RfcUp(i + step, upper, step) ELSE {}

RECURSIVE RfcDown(_, _, _)
\* RFC 9535: i = upper; WHILE lower < i: select a(i); i = i + step.
RfcDown(i, lower, step) == IF lower < i THEN {i} \cup RfcDown(i + step, lower, step) ELSE {}

\* The indices the slice s selects on an array of len elements, with the
\* RFC's defaults for what is omitted.
RfcSelected(s, len) ==
    LET step == IF Len(s.Step) > 0 THEN s.Step[1] ELSE 1
        start == IF Len(s.Start) > 0 THEN s.Start[1]
                 ELSE IF step >= 0 THEN 0 ELSE len - 1
        end == IF Len(s.End) > 0 THEN s.End[1]
               ELSE IF step >= 0 THEN len ELSE (-len) - 1
        b == RfcBounds(start, end, step, len)
    IN IF step > 0 THEN RfcUp(b[1], b[2], step)
       ELSE IF step < 0 THEN RfcDown(b[2], b[1], step)
       ELSE {}

\* C22: SliceSelector.Matches(i, n) holds exactly when i is one of the
\* indices RFC 9535 selects for start:end:step on an array of n elements:
\* omitted parts take their defaults at match time, negative bounds are
\* normalised by adding n and clamped, and step 0 matches nothing.
C22_SliceMatchesIsRfcSelection ==
    ret.op = "Matches" =>
        /\ ret.v <=> ret.idx \in RfcSelected(input.sel, input.arrLen)
        /\ (Len(input.sel.Step) > 0 /\ input.sel.Step[1] = 0) => ~ret.v
        /\ ret.v => ret.idx \in 0..(input.arrLen - 1)

\* A reversed slice with omitted bounds reaches the first element.
C22_Witness ==
    /\ ret.op = "Matches" /\ ret.v
    /\ input.sel = SliceSelector(<<>>, <<>>, <<-2>>)
    /\ input.arrLen = 3 /\ ret.idx = 0

\* Negative bounds, one of them beyond the start of the array, with a step.
C22_WitnessClamped ==
    /\ ret.op = "Matches" /\ ret.v
    /\ input.sel = SliceSelector(<<-4>>, <<-1>>, <<2>>)
    /\ input.arrLen = 3 /\ ret.idx = 0

\* Step 0 on an index inside the bounds.
C22_WitnessStepZero ==
    /\ ret.op = "Matches" /\ ~ret.v
    /\ input.sel = SliceSelector(<<0>>, <<3>>, <<0>>)
    /\ input.arrLen = 3 /\ ret.idx = 1

(***************************************************************************)
(* C23: the automaton as a function of the set of paths.  The caller's     *)
(* query is compiled; the automaton is compared with the automata of the   *)
(* other lists of the same paths (other orders, repetitions).              *)
(***************************************************************************)
PieceFrom1By2 == <<"[", "1", ":", ":", "2", "]">>

PieceAA == <<"[", "'", "a", "'", ",", "'", "a", "'", "]">>

\* Paths with common prefixes, slices that differ in the step only, a
\* repeated selector in one segment, and descendant segments.
OrderPaths ==
    {Root \o PieceA \o PieceK, Root \o PieceA \o PieceWild, Root \o PieceA,
     Root \o PieceDescK, Root \o PieceDesc0 \o PieceA,
     Root \o PieceFrom1 \o PieceA, Root \o PieceFrom1By2 \o PieceK, Root \o PieceFrom1 \o Piece0,
     Root \o PieceAA \o PieceK}

\* Bound: the number of paths of a list.
MaxOrder == 3

RECURSIVE PathSeqsOf(_, _)
\* The lists of one to n paths out of pool.
PathSeqsOf(pool, n) ==
    IF n <= 0 THEN {}
    ELSE {<<p>> : p \in pool} \cup {Append(ps, p) : ps \in PathSeqsOf(pool, n - 1), p \in pool}

OrderLists == PathSeqsOf(OrderPaths, MaxOrder)

InitOrder ==
    /\ input = Nil
    /\ query \in {Include(ps) : ps \in OrderLists}
    /\ maxDepth = 0
    /\ ret = NoCall
    /\ prev = <<>>
    /\ AuxInit

NextOrder == Compile

SpecOrder == InitOrder /\ [][NextOrder]_vars

RECURSIVE SameAutomaton(_, _)
\* The states a and b have the same accepting flag and the same transitions
\* (slice edges in any order), to states that are the same in this sense.
SameAutomaton(a, b) ==
    IF a.nil \/ b.nil THEN a.nil /\ b.nil
    ELSE /\ a.accepting <=> b.accepting
         /\ DOMAIN a.names = DOMAIN b.names
         /\ \A k \in DOMAIN a.names : SameAutomaton(a.names[k], b.names[k])
         /\ DOMAIN a.indexes = DOMAIN b.indexes
         /\ \A k \in DOMAIN a.indexes : SameAutomaton(a.indexes[k], b.indexes[k])
         /\ SameAutomaton(a.wildcard, b.wildcard)
         /\ SameAutomaton(a.epsilon, b.epsilon)
         /\ \A i \in 1..Len(a.slices) : \E j \in 1..Len(b.slices) :
               /\ a.slices[i].sel = b.slices[j].sel
               /\ SameAutomaton(a.slices[i].node, b.slices[j].node)
         /\ \A j \in 1..Len(b.slices) : \E i \in 1..Len(a.slices) :
               /\ a.slices[i].sel = b.slices[j].sel
               /\ SameAutomaton(a.slices[i].node, b.slices[j].node)
         /\ Len(a.namesMerged) = Len(b.namesMerged)
         /\ Len(a.namesMerged) > 0 =>
               /\ DOMAIN a.namesMerged[1] = DOMAIN b.namesMerged[1]
               /\ \A k \in DOMAIN a.namesMerged[1] :
                     SameAutomaton(a.namesMerged[1][k], b.namesMerged[1][k])

\* The label of the descent edge in a sequence of edge labels.
DescentLabel == [t |-> "descendant"]

RECURSIVE SelectorPrefixes(_, _)
\* The sequences of edge labels that the segments segs[i..] of a path spell
\* out from a state, every initial part included.
SelectorPrefixes(segs, i) ==
    IF i > Len(segs) THEN {<<>>}
    ELSE LET below == {<<sel>> \o r : sel \in {segs[i].Selectors[x] : x \in 1..Len(segs[i].Selectors)},
                                      r \in SelectorPrefixes(segs, i + 1)}
         IN {<<>>} \cup (IF segs[i].Descendant
                         THEN {<<DescentLabel>>} \cup {<<DescentLabel>> \o r : r \in below}
                         ELSE below)

RECURSIVE StateLabels(_)
\* The sequences of edge labels that lead from the state n to a state.
StateLabels(n) ==
    {<<>>}
    \cup UNION {{<<NameSelector(k)>> \o r : r \in StateLabels(n.names[k])} : k \in DOMAIN n.names}
    \cup UNION {{<<IndexSelector(k)>> \o r : r \in StateLabels(n.indexes[k])} : k \in DOMAIN n.indexes}
    \cup (IF n.wildcard.nil THEN {} ELSE {<<WildcardSelector>> \o r : r \in StateLabels(n.wildcard)})
    \cup (IF n.epsilon.nil THEN {} ELSE {<<DescentLabel>> \o r : r \in StateLabels(n.epsilon)})
    \cup UNION {{<<n.slices[i].sel>> \o r : r \in StateLabels(n.slices[i].node)} :
                   i \in 1..Len(n.slices)}

RECURSIVE OneEdgePerSlice(_)
\* No state at or below n has two slice edges with the same start, end and
\* step.
OneEdgePerSlice(n) ==
    /\ \A i, j \in 1..Len(n.slices) : sliceEqual(n.slices[i].sel, n.slices[j].sel) => i = j
    /\ \A i \in 1..Len(n.slices) : OneEdgePerSlice(n.slices[i].node)
    /\ \A k \in DOMAIN n.names : OneEdgePerSlice(n.names[k])
    /\ \A k \in DOMAIN n.indexes : OneEdgePerSlice(n.indexes[k])
    /\ n.wildcard.nil \/ OneEdgePerSlice(n.wildcard)
    /\ n.epsilon.nil \/ OneEdgePerSlice(n.epsilon)

\* The set of the elements of a sequence.
Range(s) == {s[i] : i \in 1..Len(s)}

\* The automaton compiled from the path list ps.
CompiledFrom(ps) == QueryCompile(Include(ps)).q.compiled

\* C23: the automaton compiled from a list of paths has the same accepting
\* flags and transitions at every state as the automaton compiled from any
\* other list of the same paths (another order, a path repeated), and walks
\* over the two return the same; the states of the automaton as insert built
\* it are exactly the distinct prefixes of its paths, one state per prefix,
\* and no state has two slice edges with the same start, end and step.
C23_AutomatonDependsOnPathSet ==
    ret.op = "Compile" =>
        /\ ret.err = <<>>
        /\ OneEdgePerSlice(Unfinalized(query.compiled))
        /\ Let(parseAll(query, 1, <<>>, <<>>).paths, LAMBDA paths :
               StateLabels(Unfinalized(query.compiled))
                 = UNION {SelectorPrefixes(paths[i].Segments, 1) : i \in 1..Len(paths)})
        /\ \A other \in OrderLists :
              Range(other) = Range(query.rawPaths) =>
                  Let(CompiledFrom(other), LAMBDA u :
                      /\ SameAutomaton(query.compiled, u)
                      /\ \A d \in CacheDocs : \A include \in BOOLEAN :
                            walk(newWalker(include, 0), d, query.compiled, 0)
                              = walk(newWalker(include, 0), d, u, 0))

\* Three paths through one slice edge and one through a slice that differs
\* in the step, compiled in an order other than that of another list of the
\* same paths: the root has two slice edges, the first with two children.
C23_Witness ==
    /\ ret.op = "Compile"
    /\ query.rawPaths = <<Root \o PieceFrom1 \o Piece0, Root \o PieceFrom1By2 \o PieceK,
                          Root \o PieceFrom1 \o PieceA>>
    /\ Len(query.compiled.slices) = 2
    /\ DOMAIN query.compiled.slices[1].node.names = {KeyA}
    /\ DOMAIN query.compiled.slices[1].node.indexes = {0}

\* The same path given twice, with another path in between.
C23_WitnessTwice ==
    /\ ret.op = "Compile"
    /\ query.rawPaths = <<Root \o PieceA \o PieceK, Root \o PieceA \o PieceWild,
                          Root \o PieceA \o PieceK>>
    /\ query.compiled = CompiledFrom(<<Root \o PieceA \o PieceK, Root \o PieceA \o PieceWild>>)

(***************************************************************************)
(* C24: sequences of insertions into one automaton.  ret.v is the root     *)
(* that insert has built so far, query.rawPaths the paths inserted.        *)
(***************************************************************************)
\* Bound: the number of paths inserted one after the other.
MaxInserts == 3

\* Paths with recursive descent at the root and below a name, shorter and
\* longer paths through the same states, and descent below descent.
DescentPaths ==
    {Root \o PieceDescK, Root \o PieceDesc0, Root \o PieceDescK \o PieceA,
     Root \o PieceDescK \o PieceDescK, Root \o PieceA \o PieceDescK,
     Root \o PieceA \o PieceDesc0, Root \o PieceA, Root \o PieceA \o PieceK}

\* root.insert(path.Segments, 0)
InsertCall ==
    /\ Len(query.rawPaths) < MaxInserts
    /\ \E raw \in DescentPaths :
          /\ ret' = [op |-> "insert", err |-> <<>>,
                     v |-> insert(ret.v, ParsePath(raw, MaxPathLength).path.Segments, 1)]
          /\ query' = Include(Append(query.rawPaths, raw))
    /\ UNCHANGED <<input, maxDepth, prev>>
    /\ UNCHANGED aux

InitInsert ==
    /\ input = Nil
    /\ query = Include(<<>>)
    /\ maxDepth = 0
    /\ ret = [op |-> "newTrieNode", err |-> <<>>, v |-> newTrieNode]
    /\ prev = <<>>
    /\ AuxInit

NextInsert == InsertCall

SpecInsert == InitInsert /\ [][NextInsert]_vars

RECURSIVE AcceptingLabels(_)
\* The sequences of edge labels that lead from the state n to an accepting
\* state.
AcceptingLabels(n) ==
    (IF n.accepting THEN {<<>>} ELSE {})
    \cup UNION {{<<NameSelector(k)>> \o r : r \in AcceptingLabels(n.names[k])} : k \in DOMAIN n.names}
    \cup UNION {{<<IndexSelector(k)>> \o r : r \in AcceptingLabels(n.indexes[k])} :
                   k \in DOMAIN n.indexes}
    \cup (IF n.wildcard.nil THEN {}
          ELSE {<<WildcardSelector>> \o r : r \in AcceptingLabels(n.wildcard)})
    \cup (IF n.epsilon.nil THEN {} ELSE {<<DescentLabel>> \o r : r \in AcceptingLabels(n.epsilon)})
    \cup UNION {{<<n.slices[i].sel>> \o r : r \in AcceptingLabels(n.slices[i].node)} :
                   i \in 1..Len(n.slices)}

RECURSIVE SelectorSequences(_, _)
\* The complete sequences of edge labels of a path with the segments
\* segs[i..]: one selector of every segment, the descent edge before the
\* selector of a descendant segment.
SelectorSequences(segs, i) ==
    IF i > Len(segs) THEN {<<>>}
    ELSE {(IF segs[i].Descendant THEN <<DescentLabel>> ELSE <<>>) \o <<sel>> \o r :
             sel \in {segs[i].Selectors[x] : x \in 1..Len(segs[i].Selectors)},
             r \in SelectorSequences(segs, i + 1)}

\* The segments of the j-th path inserted.
Inserted(j) == ParsePath(query.rawPaths[j], MaxPathLength).path.Segments

\* C24: after any sequence of insertions the automaton accepts exactly the
\* selector sequences of all the paths inserted, the earlier ones with the
\* later ones: a further descendant insertion at a parent extends the one
\* epsilon child of that parent and does not replace it; and the states are
\* exactly the prefixes of those paths, so that marking a state accepting
\* removes no child and adding a child or an epsilon child clears no
\* accepting flag.
C24_EpsilonChildExtended ==
    /\ AcceptingLabels(ret.v)
         = UNION {SelectorSequences(Inserted(j), 1) : j \in 1..Len(query.rawPaths)}
    /\ StateLabels(ret.v)
         = {<<>>} \cup UNION {SelectorPrefixes(Inserted(j), 1) : j \in 1..Len(query.rawPaths)}

\* Two descendant insertions at the root and one at the state below a name:
\* the epsilon child of the root holds both patterns.
C24_Witness ==
    /\ query.rawPaths = <<Root \o PieceDescK, Root \o PieceA \o PieceDescK, Root \o PieceDesc0>>
    /\ ret.v.epsilon.names[KeyK].accepting
    /\ ret.v.epsilon.indexes[0].accepting
    /\ ret.v.names[KeyA].epsilon.names[KeyK].accepting

\* A state marked accepting after it got a child and an epsilon child.
C24_WitnessAccepting ==
    /\ query.rawPaths = <<Root \o PieceA \o PieceK, Root \o PieceA \o PieceDesc0, Root \o PieceA>>
    /\ ret.v.names[KeyA].accepting
    /\ KeyK \in DOMAIN ret.v.names[KeyA].names
    /\ ~ret.v.names[KeyA].epsilon.nil

\* A state that was accepting first and got a child and an epsilon child.
C24_WitnessChildren ==
    /\ query.rawPaths = <<Root \o PieceA, Root \o PieceA \o PieceK, Root \o PieceA \o PieceDescK>>
    /\ ret.v.names[KeyA].accepting
    /\ KeyK \in DOMAIN ret.v.names[KeyA].names
    /\ ~ret.v.names[KeyA].epsilon.nil

(***************************************************************************)
(* C25: the walker over a document in memory.  A map or slice is a cell of *)
(* heap at an address; an `any` holding one is a reference to its cell,    *)
(* so a kept subtree of the output is the input's own cell.  Every call    *)
(* returns [heap, wrote, v, err]: the memory afterwards, the addresses of  *)
(* the cells that existed before a store into them, the value returned and *)
(* the error (<<>> or <<e>>).  The automaton is only read and stays a      *)
(* value.  A walker carries, beside its two fields, the order in which the *)
(* run ranges over the keys of a map.                                      *)
(***************************************************************************)
Ptr(a) == [k |-> "ptr", a |-> a]

IsPtr(v) == v.k = "ptr"

Out(h, wrote, v, err) == [heap |-> h, wrote |-> wrote, v |-> v, err |-> err]

dOk(m, v) == Out(m.heap, m.wrote, v, <<>>)

dFail(m, e) == Out(m.heap, m.wrote, Nil, <<e>>)

\* v refers to a map[string]any (to a []any) in the memory of m.
dIsObj(m, v) == IsPtr(v) /\ m.heap[v.a].k = "obj"

dIsArr(m, v) == IsPtr(v) /\ m.heap[v.a].k = "arr"

\* make(map[string]any)
dMakeMap(m) == Out(Append(m.heap, Obj(EmptyFcn)), m.wrote, Ptr(Len(m.heap) + 1), <<>>)

\* make([]any, 0, n)
dMakeSlice(m) == Out(Append(m.heap, Arr(<<>>)), m.wrote, Ptr(Len(m.heap) + 1), <<>>)

\* result[key] = r, result the map at address a
dPut(m, a, key, r) ==
    Out([m.heap EXCEPT ![a] = Obj(MapPut(m.heap[a].f, key, r))], m.wrote \cup {a}, m.v, m.err)

\* result = append(result, r): the returned v is the new result; a nil
\* slice gets its cell at the first append.
dAppend(m, result, r) ==
    IF result = Nil
    THEN Out(Append(m.heap, Arr(<<r>>)), m.wrote, Ptr(Len(m.heap) + 1), <<>>)
    ELSE Out([m.heap EXCEPT ![result.a] = Arr(Append(m.heap[result.a].e, r))],
             m.wrote \cup {result.a}, result, <<>>)

\* The keys of the map f in the order this run ranges over them.
dKeys(order, f) == SelectSeq(order, LAMBDA k : k \in DOMAIN f)

newWalkerIn(include, md, order) ==
    [include |-> include, maxDepth |-> md, order |-> order]

RECURSIVE dMergeValues(_, _, _, _)
RECURSIVE dMergeCopy(_, _, _, _, _)
RECURSIVE dMergeFill(_, _, _, _, _, _)
\* mergeValues: for k, v := range aObj { merged[k] = v }
dMergeCopy(m, merged, aObj, keys, i) ==
    IF i > Len(keys) THEN m
    ELSE dMergeCopy(dPut(m, merged, keys[i], m.heap[aObj].f[keys[i]]), merged, aObj, keys, i + 1)

\* mergeValues: the loop over bObj.
dMergeFill(order, m, merged, bObj, keys, i) ==
    IF i > Len(keys) THEN m
    ELSE IF keys[i] \in DOMAIN m.heap[merged].f
    THEN After(dMergeValues(order, m, m.heap[merged].f[keys[i]], m.heap[bObj].f[keys[i]]),
               LAMBDA r : dMergeFill(order, dPut(r, merged, keys[i], r.v), merged, bObj,
                                     keys, i + 1))
    ELSE dMergeFill(order, dPut(m, merged, keys[i], m.heap[bObj].f[keys[i]]), merged, bObj,
                    keys, i + 1)

\* mergeValues filling the map a itself with the entries of b, where the code
\* fills a new map.
dMergeValuesIntoFirst(order, m, a, b) ==
    IF a = Nil THEN dOk(m, b)
    ELSE IF b = Nil THEN dOk(m, a)
    ELSE IF dIsObj(m, a) /\ dIsObj(m, b)
    THEN After(dMergeFill(order, m, a.a, b.a, dKeys(order, m.heap[b.a].f), 1), LAMBDA f :
               dOk(f, a))
    ELSE dOk(m, a)

\* mergeValues in memory.
dMergeValues(order, m, a, b) ==
    IF a = Nil THEN dOk(m, b)
    ELSE IF b = Nil THEN dOk(m, a)
    ELSE IF dIsObj(m, a) /\ dIsObj(m, b)
    THEN After(dMakeMap(m), LAMBDA mk :
         After(dMergeCopy(mk, mk.v.a, a.a, dKeys(order, mk.heap[a.a].f), 1), LAMBDA c :
         After(dMergeFill(order, c, mk.v.a, b.a, dKeys(order, c.heap[b.a].f), 1), LAMBDA f :
               dOk(f, mk.v))))
    ELSE dOk(m, a)

RECURSIVE dWalk(_, _, _, _, _)
RECURSIVE dWalkObjectLoop(_, _, _, _, _, _, _, _)
RECURSIVE dWalkArrayLoop(_, _, _, _, _, _, _, _)
RECURSIVE dWalkSearchEpsilon(_, _, _, _, _)
RECURSIVE dSearchObjectLoop(_, _, _, _, _, _, _, _)
RECURSIVE dSearchArrayLoop(_, _, _, _, _, _, _, _)
RECURSIVE dWalkFilterEpsilon(_, _, _, _, _)
RECURSIVE dFilterObjectLoop(_, _, _, _, _, _, _, _)
RECURSIVE dFilterArrayLoop(_, _, _, _, _, _, _, _)

\* walker.resolveMatch in memory.
dResolveMatch(w, m, val, child, depth) ==
    IF child.nil THEN dOk(m, IF w.include THEN Nil ELSE val)
    ELSE IF child.accepting THEN dOk(m, IF w.include THEN val ELSE Nil)
    ELSE dWalk(w, m, val, child, depth + 1)

\* The epsilon-closure step of walkObject and walkArray in memory; r is what
\* resolveMatch returned for val, without error.
dEpsilonStep(w, r, val, eps, depth) ==
    IF eps.nil THEN r
    ELSE IF w.include
    THEN After(dWalkSearchEpsilon(w, r, val, eps, depth + 1), LAMBDA found :
               IF Len(found.err) > 0 THEN found
               ELSE dMergeValues(w.order, found, r.v, found.v))
    ELSE IF r.v # Nil THEN dWalkFilterEpsilon(w, r, r.v, eps, depth + 1)
    ELSE r

\* The loop of walkObject over the keys from keys[i] on; result is the
\* address of the map being built.
dWalkObjectLoop(w, m, obj, trie, depth, result, keys, i) ==
    IF i > Len(keys) THEN dOk(m, Ptr(result))
    ELSE After(dResolveMatch(w, m, m.heap[obj].f[keys[i]], keyState(trie, keys[i]), depth),
               LAMBDA r :
         IF Len(r.err) > 0 THEN r
         ELSE After(dEpsilonStep(w, r, m.heap[obj].f[keys[i]], trie.epsilon, depth),
                    LAMBDA e :
              IF Len(e.err) > 0 THEN e
              ELSE dWalkObjectLoop(w, IF e.v # Nil THEN dPut(e, result, keys[i], e.v) ELSE e,
                                   obj, trie, depth, result, keys, i + 1)))

\* walker.walkObject in memory; obj is the address of the map.
dWalkObject(w, m, obj, trie, depth) ==
    After(dMakeMap(m), LAMBDA mk :
    After(dWalkObjectLoop(w, mk, obj, trie, depth, mk.v.a, dKeys(w.order, mk.heap[obj].f), 1),
          LAMBDA res :
          IF Len(res.err) > 0 THEN res
          ELSE IF w.include /\ DOMAIN res.heap[mk.v.a].f = {} THEN dOk(res, Nil)
          ELSE res))

\* The loop of walkArray from element i (1-based) on; result is the slice
\* being built (Nil: the nil slice).
dWalkArrayLoop(w, m, arr, trie, depth, result, i, arrLen) ==
    IF i > arrLen THEN dOk(m, result)
    ELSE After(dResolveMatch(w, m, m.heap[arr].e[i], indexState(trie, i - 1, arrLen), depth),
               LAMBDA r :
         IF Len(r.err) > 0 THEN r
         ELSE After(dEpsilonStep(w, r, m.heap[arr].e[i], trie.epsilon, depth), LAMBDA e :
              IF Len(e.err) > 0 THEN e
              ELSE IF e.v # Nil
              THEN After(dAppend(e, result, e.v), LAMBDA ap :
                         dWalkArrayLoop(w, ap, arr, trie, depth, ap.v, i + 1, arrLen))
              ELSE dWalkArrayLoop(w, e, arr, trie, depth, result, i + 1, arrLen)))

\* walker.walkArray in memory; arr is the address of the slice.
dWalkArray(w, m, arr, trie, depth) ==
    After(IF w.include THEN dOk(m, Nil) ELSE dMakeSlice(m), LAMBDA mk :
    After(dWalkArrayLoop(w, mk, arr, trie, depth, mk.v, 1, Len(mk.heap[arr].e)), LAMBDA res :
          IF Len(res.err) > 0 THEN res
          ELSE IF w.include /\ res.v = Nil THEN dOk(res, Nil)
          ELSE res))

\* walker.walk in memory.
dWalk(w, m, node, trie, depth) ==
    IF trie.nil THEN dOk(m, IF w.include THEN Nil ELSE node)
    ELSE IF w.maxDepth > 0 /\ depth > w.maxDepth
    THEN dFail(m, DepthError(depth, w.maxDepth))
    ELSE IF trie.accepting THEN dOk(m, IF w.include THEN node ELSE Nil)
    ELSE IF dIsObj(m, node) THEN dWalkObject(w, m, node.a, trie, depth)
    ELSE IF dIsArr(m, node) THEN dWalkArray(w, m, node.a, trie, depth)
    ELSE dOk(m, IF w.include THEN Nil ELSE node)

\* The object loop of walkSearchEpsilon from keys[i] on.
dSearchObjectLoop(w, m, obj, epsTrie, depth, result, keys, i) ==
    IF i > Len(keys) THEN dOk(m, Ptr(result))
    ELSE After(IF ~match(epsTrie, keys[i]).nil
               THEN After(dWalk(w, m, m.heap[obj].f[keys[i]], match(epsTrie, keys[i]), depth + 1),
                          LAMBDA c :
                          IF Len(c.err) > 0 THEN c
                          ELSE IF c.v # Nil THEN dPut(c, result, keys[i], c.v) ELSE c)
               ELSE dOk(m, Nil), LAMBDA c :
         IF Len(c.err) > 0 THEN c
         ELSE After(dWalkSearchEpsilon(w, c, c.heap[obj].f[keys[i]], epsTrie, depth + 1),
                    LAMBDA e :
              IF Len(e.err) > 0 THEN e
              ELSE IF e.v = Nil
              THEN dSearchObjectLoop(w, e, obj, epsTrie, depth, result, keys, i + 1)
              ELSE IF keys[i] \in DOMAIN e.heap[result].f
              THEN After(dMergeValues(w.order, e, e.heap[result].f[keys[i]], e.v), LAMBDA mg :
                         dSearchObjectLoop(w, dPut(mg, result, keys[i], mg.v), obj, epsTrie,
                                           depth, result, keys, i + 1))
              ELSE dSearchObjectLoop(w, dPut(e, result, keys[i], e.v), obj, epsTrie, depth,
                                     result, keys, i + 1)))

\* The array loop of walkSearchEpsilon from element i on.
dSearchArrayLoop(w, m, arr, epsTrie, depth, result, i, arrLen) ==
    IF i > arrLen THEN dOk(m, result)
    ELSE After(IF ~matchIndex(epsTrie, i - 1, arrLen).nil
               THEN dWalk(w, m, m.heap[arr].e[i], matchIndex(epsTrie, i - 1, arrLen), depth + 1)
               ELSE dOk(m, Nil), LAMBDA c :
         IF Len(c.err) > 0 THEN c
         ELSE After(dWalkSearchEpsilon(w, c, c.heap[arr].e[i], epsTrie, depth + 1), LAMBDA e :
              IF Len(e.err) > 0 THEN e
              ELSE After(dMergeValues(w.order, e, c.v, e.v), LAMBDA mg :
                   IF mg.v # Nil
                   THEN After(dAppend(mg, result, mg.v), LAMBDA ap :
                              dSearchArrayLoop(w, ap, arr, epsTrie, depth, ap.v, i + 1, arrLen))
                   ELSE dSearchArrayLoop(w, mg, arr, epsTrie, depth, result, i + 1, arrLen))))

\* walker.walkSearchEpsilon in memory.
dWalkSearchEpsilon(w, m, node, epsTrie, depth) ==
    IF w.maxDepth > 0 /\ depth > w.maxDepth
    THEN dFail(m, DepthError(depth, w.maxDepth))
    ELSE IF dIsObj(m, node)
    THEN After(dMakeMap(m), LAMBDA mk :
         After(dSearchObjectLoop(w, mk, node.a, epsTrie, depth, mk.v.a,
                                 dKeys(w.order, mk.heap[node.a].f), 1), LAMBDA res :
               IF Len(res.err) > 0 THEN res
               ELSE IF DOMAIN res.heap[mk.v.a].f = {} THEN dOk(res, Nil)
               ELSE res))
    ELSE IF dIsArr(m, node)
    THEN dSearchArrayLoop(w, m, node.a, epsTrie, depth, Nil, 1, Len(m.heap[node.a].e))
    ELSE dOk(m, Nil)

\* The object loop of walkFilterEpsilon from keys[i] on.
dFilterObjectLoop(w, m, obj, epsTrie, depth, result, keys, i) ==
    IF i > Len(keys) THEN dOk(m, Ptr(result))
    ELSE Let(match(epsTrie, keys[i]), LAMBDA childTrie :
         IF ~childTrie.nil /\ childTrie.accepting
         THEN dFilterObjectLoop(w, m, obj, epsTrie, depth, result, keys, i + 1)
         ELSE IF ~childTrie.nil
         THEN After(dWalk(w, m, m.heap[obj].f[keys[i]], childTrie, depth + 1), LAMBDA c :
              IF Len(c.err) > 0 THEN c
              ELSE After(dWalkFilterEpsilon(w, c, c.v, epsTrie, depth + 1), LAMBDA e :
                   IF Len(e.err) > 0 THEN e
                   ELSE dFilterObjectLoop(w, IF e.v # Nil THEN dPut(e, result, keys[i], e.v)
                                             ELSE e,
                                          obj, epsTrie, depth, result, keys, i + 1)))
         ELSE After(dWalkFilterEpsilon(w, m, m.heap[obj].f[keys[i]], epsTrie, depth + 1),
                    LAMBDA e :
              IF Len(e.err) > 0 THEN e
              ELSE dFilterObjectLoop(w, dPut(e, result, keys[i], e.v), obj, epsTrie, depth,
                                     result, keys, i + 1)))

\* The array loop of walkFilterEpsilon from element i on.
dFilterArrayLoop(w, m, arr, epsTrie, depth, result, i, arrLen) ==
    IF i > arrLen THEN dOk(m, result)
    ELSE Let(matchIndex(epsTrie, i - 1, arrLen), LAMBDA childTrie :
         IF ~childTrie.nil /\ childTrie.accepting
         THEN dFilterArrayLoop(w, m, arr, epsTrie, depth, result, i + 1, arrLen)
         ELSE IF ~childTrie.nil
         THEN After(dWalk(w, m, m.heap[arr].e[i], childTrie, depth + 1), LAMBDA c :
              IF Len(c.err) > 0 THEN c
              ELSE After(dWalkFilterEpsilon(w, c, c.v, epsTrie, depth + 1), LAMBDA e :
                   IF Len(e.err) > 0 THEN e
                   ELSE After(dAppend(e, result, e.v), LAMBDA ap :
                        dFilterArrayLoop(w, ap, arr, epsTrie, depth, ap.v, i + 1, arrLen))))
         ELSE After(dWalkFilterEpsilon(w, m, m.heap[arr].e[i], epsTrie, depth + 1), LAMBDA e :
              IF Len(e.err) > 0 THEN e
              ELSE After(dAppend(e, result, e.v), LAMBDA ap :
                   dFilterArrayLoop(w, ap, arr, epsTrie, depth, ap.v, i + 1, arrLen))))

\* walker.walkFilterEpsilon in memory.
dWalkFilterEpsilon(w, m, node, epsTrie, depth) ==
    IF w.maxDepth > 0 /\ depth > w.maxDepth
    THEN dFail(m, DepthError(depth, w.maxDepth))
    ELSE IF dIsObj(m, node)
    THEN After(dMakeMap(m), LAMBDA mk :
               dFilterObjectLoop(w, mk, node.a, epsTrie, depth, mk.v.a,
                                 dKeys(w.order, mk.heap[node.a].f), 1))
    ELSE IF dIsArr(m, node)
    THEN After(dMakeSlice(m), LAMBDA mk :
               dFilterArrayLoop(w, mk, node.a, epsTrie, depth, mk.v, 1, Len(mk.heap[node.a].e)))
    ELSE dOk(m, node)

RECURSIVE dLoad(_, _)
RECURSIVE dLoadKeys(_, _, _, _)
RECURSIVE dLoadElems(_, _, _, _)
\* The children of a decoded object laid out one after the other.
dLoadKeys(m, f, keys, acc) ==
    IF keys = {} THEN dOk(m, acc)
    ELSE Let(CHOOSE k \in keys : TRUE, LAMBDA k :
         After(dLoad(m, f[k]), LAMBDA r : dLoadKeys(r, f, keys \ {k}, MapPut(acc, k, r.v))))

\* The elements of a decoded array laid out one after the other.
dLoadElems(m, e, i, acc) ==
    IF i > Len(e) THEN dOk(m, acc)
    ELSE After(dLoad(m, e[i]), LAMBDA r : dLoadElems(r, e, i + 1, Append(acc, r.v)))

\* The document v as the decoder leaves it in memory: every map and slice
\* in a cell of its own, the root last.
dLoad(m, v) ==
    IF IsObj(v)
    THEN After(dLoadKeys(m, v.f, DOMAIN v.f, EmptyFcn), LAMBDA r :
               Out(Append(r.heap, Obj(r.v)), r.wrote, Ptr(Len(r.heap) + 1), <<>>))
    ELSE IF IsArr(v)
    THEN After(dLoadElems(m, v.e, 1, <<>>), LAMBDA r :
               Out(Append(r.heap, Arr(r.v)), r.wrote, Ptr(Len(r.heap) + 1), <<>>))
    ELSE dOk(m, v)

RECURSIVE DerefDoc(_, _)
\* The JSON value the reference r stands for in the memory h.
DerefDoc(h, r) ==
    IF ~IsPtr(r) THEN r
    ELSE IF h[r.a].k = "obj"
    THEN Obj([key \in DOMAIN h[r.a].f |-> DerefDoc(h, h[r.a].f[key])])
    ELSE Arr([i \in 1..Len(h[r.a].e) |-> DerefDoc(h, h[r.a].e[i])])

\* The orders in which a run may range over the keys of a map.
KeyOrders == {<<KeyA, KeyK>>, <<KeyK, KeyA>>}

\* Path lists whose walks keep subtrees of the input verbatim, merge them
\* with what the descent finds, and filter them.
FrameLists ==
    {<<Root \o PieceA, Root \o PieceDescK>>,
     <<Root \o PieceA \o PieceK, Root \o PieceDescK>>,
     <<Root \o PieceDescK>>,
     <<Root \o PieceDescK \o PieceA>>,
     <<Root \o Piece0, Root \o PieceDesc0>>,
     <<Root \o PieceA \o Piece0, Root \o PieceDesc1>>,
     <<Root \o PieceWild \o PieceK, Root \o PieceA>>,
     <<Root \o PieceFrom1, Root \o PieceDescK>>}

\* The decoded input in memory, and the reference the caller holds.
InputMem == dLoad(Out(<<>>, {}, Nil, <<>>), input)

\* What a reference can be in the caller's hands: nil, a scalar, or one of
\* the maps and slices of the input.
InputRefs == {Nil, Scalar("string", <<"s">>)} \cup {Ptr(a) : a \in 1..Len(InputMem.heap)}

\* out, err := q.Walk(tree) on a compiled query, in memory
WalkInMemory ==
    /\ ret.op = "none"
    /\ ~query.compiled.nil
    /\ \E order \in KeyOrders :
          Let(dWalk(newWalkerIn(query.mode = "include", maxDepth, order),
                    Out(heap, {}, Nil, <<>>), InputMem.v, query.compiled, 0), LAMBDA r :
              /\ heap' = r.heap
              /\ at' = <<[wrote |-> r.wrote, v |-> r.v, order |-> order]>>
              /\ ret' = [op |-> "Walk", v |-> DerefDoc(r.heap, r.v), err |-> r.err])
    /\ UNCHANGED <<input, query, maxDepth, prev, builds>>

\* merged := mergeValues(a, b) on two values of the caller, in memory
MergeValuesInMemory ==
    /\ ret.op = "none"
    /\ query.compiled.nil
    /\ \E order \in KeyOrders : \E a \in InputRefs : \E b \in InputRefs :
          Let(dMergeValues(order, Out(heap, {}, Nil, <<>>), a, b), LAMBDA r :
              /\ heap' = r.heap
              /\ at' = <<[wrote |-> r.wrote, v |-> r.v, order |-> order]>>
              /\ ret' = [op |-> "mergeValues", v |-> DerefDoc(r.heap, r.v), err |-> <<>>]
              /\ prev' = <<a, b>>)
    /\ UNCHANGED <<input, query, maxDepth, builds>>

InitFrame ==
    /\ input \in Docs
    /\ \/ /\ query \in {QueryCompile(Include(ps)).q : ps \in FrameLists}
                          \cup {QueryCompile(Exclude(ps)).q : ps \in FrameLists}
          /\ maxDepth \in 0..1
       \/ /\ query = Include(<<>>)
          /\ maxDepth = 0
    /\ ret = NoCall
    /\ prev = <<>>
    /\ heap = InputMem.heap
    /\ at = <<>>
    /\ builds = 0

NextFrame == WalkInMemory \/ MergeValuesInMemory

SpecFrame == InitFrame /\ [][NextFrame]_vars

\* The maps and slices of the input at or below the reference r.
RECURSIVE CellsBelow(_, _)
CellsBelow(h, r) ==
    IF ~IsPtr(r) THEN {}
    ELSE {r.a} \cup (IF h[r.a].k = "obj"
                     THEN UNION {CellsBelow(h, h[r.a].f[key]) : key \in DOMAIN h[r.a].f}
                     ELSE UNION {CellsBelow(h, h[r.a].e[i]) : i \in 1..Len(h[r.a].e)})

\* C25: after a walk in either mode, also one that ends in a DepthError,
\* and after mergeValues, every map and slice of the input holds exactly the
\* keys, elements and values it held before: no cell of the input was
\* stored into, and the input reads back as the document it was.  (The
\* value returned is the one the walker returns on values.)
C25_WalkLeavesInputUnchanged ==
    ret.op # "none" =>
        /\ \A a \in 1..Len(InputMem.heap) : heap[a] = InputMem.heap[a]
        /\ at[1].wrote \cap (1..Len(InputMem.heap)) = {}
        /\ DerefDoc(heap, InputMem.v) = input
        /\ ret.op = "Walk" =>
              Let(walk(newWalker(query.mode = "include", maxDepth), input, query.compiled, 0),
                  LAMBDA r :
                  IF r.errs = {} THEN ret.err = <<>> /\ ret.v = r.v
                  ELSE Len(ret.err) > 0 /\ ret.err[1] \in r.errs /\ ret.v = Nil)
        /\ ret.op = "mergeValues" =>
              ret.v = mergeValues(DerefDoc(heap, prev[1]), DerefDoc(heap, prev[2]))

\* An include walk merged a map of the input, kept verbatim, with a map the
\* descent built: the output holds a new map, and below it a map of the
\* input.
C25_Witness ==
    /\ ret.op = "Walk" /\ ret.err = <<>> /\ query.mode = "include"
    /\ query.rawPaths = <<Root \o PieceA, Root \o PieceDescK>>
    /\ IsObj(input) /\ KeyA \in DOMAIN input.f /\ IsObj(input.f[KeyA])
    /\ KeyK \in DOMAIN input.f[KeyA].f /\ IsObj(input.f[KeyA].f[KeyK])
    /\ IsPtr(at[1].v) /\ at[1].v.a > Len(InputMem.heap)
    /\ heap[at[1].v.a].f[KeyA].a > Len(InputMem.heap)
    /\ heap[heap[at[1].v.a].f[KeyA].a].f[KeyK].a > Len(InputMem.heap)

\* A walk kept a map or slice of the input in its output as it is.
C25_WitnessShared ==
    /\ ret.op = "Walk" /\ ret.err = <<>>
    /\ \E a \in CellsBelow(heap, at[1].v) : a <= Len(InputMem.heap)

\* A walk that ended in a DepthError after it had built part of a result.
C25_WitnessDepthError ==
    /\ ret.op = "Walk" /\ Len(ret.err) > 0
    /\ Len(heap) > Len(InputMem.heap) + 1

\* mergeValues on two maps of the input with a common key.
C25_WitnessMerge ==
    /\ ret.op = "mergeValues"
    /\ IsPtr(prev[1]) /\ IsPtr(prev[2]) /\ prev[1] # prev[2]
    /\ heap[prev[1].a].k = "obj" /\ heap[prev[2].a].k = "obj"
    /\ (DOMAIN heap[prev[1].a].f) \cap (DOMAIN heap[prev[2].a].f) # {}
    /\ at[1].v.a > Len(InputMem.heap)

(***************************************************************************)
(* C26: include and exclude over the same paths (specification Spec).      *)
(* The exclude walk that goes with an include walk is the walk over the    *)
(* same document with the same automaton in the other mode.                *)
(***************************************************************************)
RECURSIVE Nulls(_)
RECURSIVE NullsIn(_, _)
\* The number of null leaves among the values of f for the keys ks.
NullsIn(f, ks) ==
    IF ks = {} THEN 0
    ELSE Let(CHOOSE x \in ks : TRUE, LAMBDA x :
             (IF f[x] = Nil THEN 1 ELSE Nulls(f[x])) + NullsIn(f, ks \ {x}))

\* The number of null leaves inside the containers of v.
Nulls(v) ==
    IF IsObj(v) THEN NullsIn(v.f, DOMAIN v.f)
    ELSE IF IsArr(v) THEN NullsIn(v.e, DOMAIN v.e)
    ELSE 0

\* What the exclude walk returns for the document and the paths of the
\* include walk just made.
ExcludeOut == walk(newWalker(FALSE, maxDepth), input, query.compiled, 0).v

\* C26: for every document and path set every scalar leaf of the document
\* (string, number, boolean or null) is kept by exactly one of the include
\* walk and the exclude walk: the string, number and boolean leaves of the
\* two outputs are disjoint and together those of the document, and the two
\* outputs hold together as many null leaves as the document.
C26_IncludeExcludeComplementary ==
    (ret.op = "Walk" /\ ret.err = <<>> /\ query.mode = "include") =>
        /\ Leaves(ret.v) \cap Leaves(ExcludeOut) = {}
        /\ Leaves(ret.v) \cup Leaves(ExcludeOut) = Leaves(input)
        /\ Nulls(ret.v) + Nulls(ExcludeOut) = Nulls(input)

\* ---------------------------------------------------------------------------
\* Map iteration order.  Go ranges over a map in an unspecified order; the
\* loops over names and indexes in mergeNodes and finalize, and over the keys
\* of a document object in the walker, are folded here in an explicit order.
\* ---------------------------------------------------------------------------

\* The orders in which a run may range over the index keys of a state.
IndexOrders ==
    {<<-1, 0, 1>>, <<-1, 1, 0>>, <<0, -1, 1>>, <<0, 1, -1>>, <<1, -1, 0>>, <<1, 0, -1>>}

\* One order for the name maps and one for the index maps of a run.
MapOrders == [names : KeyOrders, indexes : IndexOrders]

RECURSIVE mergeNodesInOrder(_, _)
RECURSIVE mergeChildrenInOrder(_, _, _, _, _)
\* for k, v := range node.names (node.indexes): the keys of theirs visited
\* in the order keys, from the i-th on; mine is merged.names (merged.indexes)
mergeChildrenInOrder(ord, mine, theirs, keys, i) ==
    IF i > Len(keys) THEN mine
    ELSE Let(IF keys[i] \in DOMAIN mine
             THEN mergeNodesInOrder(ord, <<mine[keys[i]], theirs[keys[i]]>>)
             ELSE theirs[keys[i]], LAMBDA child :
             mergeChildrenInOrder(ord, MapPut(mine, keys[i], child), theirs, keys, i + 1))

\* The body of for _, node := range nodes in mergeNodes
mergeIntoInOrder(ord, merged, node) ==
    Let(mergeChildrenInOrder(ord, merged.names, node.names, dKeys(ord.names, node.names), 1),
        LAMBDA nm :
    Let(mergeChildrenInOrder(ord, merged.indexes, node.indexes,
                             dKeys(ord.indexes, node.indexes), 1),
        LAMBDA ix :
        [merged EXCEPT
            !.accepting = merged.accepting \/ node.accepting,
            !.names = nm,
            !.indexes = ix,
            !.wildcard = IF node.wildcard.nil THEN merged.wildcard
                         ELSE IF ~merged.wildcard.nil
                              THEN mergeNodesInOrder(ord, <<merged.wildcard, node.wildcard>>)
                              ELSE node.wildcard,
            !.slices = merged.slices \o node.slices,
            !.epsilon = IF node.epsilon.nil THEN merged.epsilon
                        ELSE IF ~merged.epsilon.nil
                             THEN mergeNodesInOrder(ord, <<merged.epsilon, node.epsilon>>)
                             ELSE node.epsilon]))

RECURSIVE mergeFoldInOrder(_, _, _, _)
mergeFoldInOrder(ord, merged, nodes, i) ==
    IF i > Len(nodes) THEN merged
    ELSE mergeFoldInOrder(ord, mergeIntoInOrder(ord, merged, nodes[i]), nodes, i + 1)

\* mergeNodes with its map loops run in the order ord
mergeNodesInOrder(ord, nodes) ==
    IF Len(nodes) = 0 THEN NoNode
    ELSE IF Len(nodes) = 1 THEN nodes[1]
    ELSE mergeFoldInOrder(ord, newTrieNode, nodes, 1)

RECURSIVE cacheNamesInOrder(_, _, _, _, _, _)
\* The loop that fills namesMerged leaving it after the first key it visits.
cacheNamesLeavesAfterFirst(ord, nm, wc, keys, i, cached) ==
    IF i > Len(keys) \/ i > 1 THEN cached
    ELSE cacheNamesInOrder(ord, nm, wc, keys, i + 1,
                           MapPut(cached, keys[i], mergeNodesInOrder(ord, <<nm[keys[i]], wc>>)))

\* for k, named := range n.names { n.namesMerged[k] = mergeNodes(named, wildcard) }
cacheNamesInOrder(ord, nm, wc, keys, i, cached) ==
    IF i > Len(keys) THEN cached
    ELSE cacheNamesInOrder(ord, nm, wc, keys, i + 1,
                           MapPut(cached, keys[i], mergeNodesInOrder(ord, <<nm[keys[i]], wc>>)))

RECURSIVE finalizeInOrder(_, _)
RECURSIVE finalizeChildrenInOrder(_, _, _, _)
\* for _, child := range n.names (n.indexes) { child.finalize() }
finalizeChildrenInOrder(ord, children, keys, i) ==
    IF i > Len(keys) THEN children
    ELSE finalizeChildrenInOrder(
             ord, MapPut(children, keys[i], finalizeInOrder(ord, children[keys[i]])), keys, i + 1)

\* trieNode.finalize with its map loops run in the order ord
finalizeInOrder(ord, n) ==
    IF n.finalized THEN n
    ELSE Let(finalizeChildrenInOrder(ord, n.names, dKeys(ord.names, n.names), 1), LAMBDA nm :
         Let(finalizeChildrenInOrder(ord, n.indexes, dKeys(ord.indexes, n.indexes), 1),
             LAMBDA ix :
         Let(IF n.wildcard.nil THEN NoNode ELSE finalizeInOrder(ord, n.wildcard), LAMBDA wc :
             [n EXCEPT !.finalized = TRUE, !.names = nm, !.indexes = ix, !.wildcard = wc,
                       !.slices = [i \in 1..Len(n.slices) |->
                                     [sel |-> n.slices[i].sel,
                                      node |-> finalizeInOrder(ord, n.slices[i].node)]],
                       !.epsilon = IF n.epsilon.nil THEN NoNode
                                   ELSE finalizeInOrder(ord, n.epsilon),
                       !.namesMerged =
                           IF DOMAIN nm # {} /\ ~wc.nil
                           THEN <<cacheNamesInOrder(ord, nm, wc, dKeys(ord.names, nm), 1,
                                                    EmptyFcn)>>
                           ELSE <<>>])))

\* buildTrie with the map loops of finalize and mergeNodes run in the order ord
buildTrieInOrder(ord, paths) == finalizeInOrder(ord, insertPaths(newTrieNode, paths, 1))

RECURSIVE TrieStates(_)
\* The states of an automaton: n and every state below it, the cached merged
\* states included.
TrieStates(n) ==
    IF n.nil THEN {}
    ELSE {n}
         \cup UNION {TrieStates(n.names[k]) : k \in DOMAIN n.names}
         \cup UNION {TrieStates(n.indexes[k]) : k \in DOMAIN n.indexes}
         \cup TrieStates(n.wildcard)
         \cup UNION {TrieStates(n.slices[i].node) : i \in 1..Len(n.slices)}
         \cup TrieStates(n.epsilon)
         \cup (IF Len(n.namesMerged) = 0 THEN {}
               ELSE UNION {TrieStates(n.namesMerged[1][k]) : k \in DOMAIN n.namesMerged[1]})

\* Documents where two branches run into the depth limit, at the same depth
\* and at different depths below the root.
DeepDocs ==
    {Label(Obj(KeyA :> Obj(KeyA :> Scalar("number", <<>>))
               @@ KeyK :> Obj(KeyA :> Scalar("number", <<>>))), <<>>),
     Label(Obj(KeyA :> Arr(<<Scalar("number", <<>>)>>)
               @@ KeyK :> Arr(<<Scalar("number", <<>>)>>)), <<>>),
     Label(Obj(KeyA :> Obj(KeyA :> Obj(KeyK :> Scalar("number", <<>>)))
               @@ KeyK :> Obj(KeyK :> Scalar("number", <<>>))), <<>>),
     Label(Obj(KeyA :> Obj(KeyK :> Scalar("number", <<>>))
               @@ KeyK :> Obj(KeyA :> Arr(<<Obj(KeyK :> Nil)>>))), <<>>)}

UnorderedDocs == CacheDocs \cup DeepDocs

\* Path lists whose states hold several names beside a wildcard and several
\* indexes, so that the loops over them have an order to choose.
ManyKeyLists ==
    {<<Root \o PieceA, Root \o PieceK \o PieceA, Root \o PieceWild \o PieceK>>,
     <<Root \o Piece0 \o PieceA, Root \o Piece1 \o PieceK, Root \o PieceLast,
       Root \o PieceWild \o PieceA \o PieceK>>,
     <<Root \o PieceA \o PieceA, Root \o PieceK \o PieceK, Root \o PieceWild \o PieceWild \o PieceA,
       Root \o PieceDescK \o PieceA, Root \o PieceDesc1>>,
     <<Root \o PieceA \o PieceA, Root \o PieceK, Root \o Piece0 \o Piece0, Root \o Piece1,
       Root \o PieceWild \o PieceK>>}

UnorderedLists == ManyKeyLists \cup DepthLists \cup FrameLists \cup SharedLists

\* q, err := q.Compile(), the map loops run in some order
CompileInOrder ==
    /\ ret.op = "none"
    /\ query.compiled.nil
    /\ \E ord \in MapOrders :
          Let(parseAll(query, 1, <<>>, <<>>), LAMBDA r :
              /\ Len(r.errs) = 0
              /\ query' = [query EXCEPT !.compiled = buildTrieInOrder(ord, r.paths)]
              /\ ret' = [op |-> "Compile", v |-> Nil, err |-> <<>>])
    /\ UNCHANGED <<input, maxDepth, prev, aux>>

\* out, err := q.Walk(tree) on the compiled query, the keys of every object
\* of the document visited in some order
WalkInOrder ==
    /\ ret.op = "Compile"
    /\ \E order \in KeyOrders :
          Let(dWalk(newWalkerIn(query.mode = "include", maxDepth, order),
                    Out(heap, {}, Nil, <<>>), InputMem.v, query.compiled, 0), LAMBDA r :
              /\ heap' = r.heap
              /\ ret' = [op |-> "Walk", v |-> DerefDoc(r.heap, r.v), err |-> r.err])
    /\ UNCHANGED <<input, query, maxDepth, prev, at, builds>>

\* merged := mergeNodes(nodes) on states of the compiled automaton, as match,
\* matchIndex and the walker call it, the map loops run in some order
MergeInOrder ==
    /\ ret.op = "Compile"
    /\ input = Nil
    /\ \E ord \in MapOrders : \E a \in TrieStates(query.compiled) :
       \E b \in TrieStates(query.compiled) :
       \E rest \in {<<>>} \cup {<<c>> : c \in TrieStates(query.compiled)} :
          /\ prev' = <<a, b>> \o rest
          /\ ret' = [op |-> "mergeNodes", v |-> mergeNodesInOrder(ord, <<a, b>> \o rest),
                     err |-> <<>>]
    /\ UNCHANGED <<input, query, maxDepth, aux>>

InitUnordered ==
    /\ input \in UnorderedDocs
    /\ query \in {Include(ps) : ps \in UnorderedLists} \cup {Exclude(ps) : ps \in UnorderedLists}
    /\ maxDepth \in 0..MaxLimit
    /\ ret = NoCall
    /\ prev = <<>>
    /\ heap = InputMem.heap
    /\ at = <<>>
    /\ builds = 0

NextUnordered == CompileInOrder \/ WalkInOrder \/ MergeInOrder

SpecUnordered == InitUnordered /\ [][NextUnordered]_vars

\* C27: in whatever order the map loops of finalize and mergeNodes run, the
\* compiled automaton is the one buildTrie gives for the path list, and a
\* merge of its states is the one mergeNodes gives; in whatever order the
\* keys of the document's objects are visited, the walk returns the one
\* value, or the one error, the walker has for the mode, automaton, limit
\* and document: no walk has two different errors to choose from.
C27_ResultIndependentOfMapOrder ==
    /\ ~query.compiled.nil =>
          query.compiled = buildTrie(parseAll(query, 1, <<>>, <<>>).paths)
    /\ ret.op = "mergeNodes" => ret.v = mergeNodes(prev)
    /\ ret.op = "Walk" =>
          Let(walk(newWalker(query.mode = "include", maxDepth), input, query.compiled, 0),
              LAMBDA r :
              /\ Cardinality(r.errs) <= 1
              /\ IF r.errs = {} THEN ret.err = <<>> /\ ret.v = r.v
                 ELSE ret.err = <<CHOOSE e \in r.errs : TRUE>> /\ ret.v = Nil)

\* A walk under a limit where both keys of the root object lead beyond the
\* limit ended with the DepthError, after a compile whose root state holds
\* two names beside a wildcard.
C27_Witness ==
    /\ ret.op = "Walk" /\ Len(ret.err) = 1
    /\ ret.err[1] = DepthError(maxDepth + 1, maxDepth)
    /\ IsObj(input) /\ DOMAIN input.f = {KeyA, KeyK}
    /\ \A key \in {KeyA, KeyK} :
          walk(newWalker(query.mode = "include", maxDepth),
               Obj(key :> input.f[key]), query.compiled, 0).errs # {}
    /\ DOMAIN query.compiled.names = {KeyA, KeyK}
    /\ Len(query.compiled.namesMerged) = 1

\* A walk over an object with two keys returned a value with both.
C27_WitnessValue ==
    /\ ret.op = "Walk" /\ ret.err = <<>>
    /\ IsObj(input) /\ DOMAIN input.f = {KeyA, KeyK}
    /\ IsObj(ret.v) /\ DOMAIN ret.v.f = {KeyA, KeyK}

\* A state with two names and two indexes was merged into states that hold
\* one of its names and one of its indexes already.
C27_WitnessMerge ==
    /\ ret.op = "mergeNodes" /\ Len(prev) = 3
    /\ Cardinality(DOMAIN prev[3].names) = 2
    /\ Cardinality(DOMAIN prev[3].indexes) = 2
    /\ \E i \in 1..2 : DOMAIN prev[i].names \cap DOMAIN prev[3].names # {}
    /\ \E i \in 1..2 : DOMAIN prev[i].indexes \cap DOMAIN prev[3].indexes # {}

\* ---------------------------------------------------------------------------
\* ParsePath on raw strings.
\* ---------------------------------------------------------------------------

\* The longest raw path of the universe, in bytes.
MaxRawLen == 5

\* The bytes the raw paths are made of.
RawBytes == {"$", ".", "a", "[", "]", "0", "*"}

\* Every string of at most MaxRawLen of these bytes, well-formed or not.
RawStrings == {<<>>} \cup PathSeqsOf(RawBytes, MaxRawLen)

\* The length limit of the one over-long and exact lengths are tried against.
RawLimit == 3

\* The arguments of WithMaxLength: negative, zero, and a limit that some
\* strings exceed, some meet exactly and some stay below.
MaxLengths == {-1, 0, RawLimit}

\* path, err := ParsePath(raw, WithMaxLength(maxLength))
ParsePathCall ==
    /\ ret.op = "none"
    /\ Let(ParsePath(input.raw, input.maxLength), LAMBDA r :
           ret' = [op |-> "ParsePath", v |-> r.path, err |-> r.err])
    /\ UNCHANGED <<input, query, maxDepth, prev, aux>>

\* root := buildTrie([]*Path{path}) on the path a parse returned
BuildTrieCall ==
    /\ ret.op = "ParsePath"
    /\ ret.err = <<>>
    /\ ret' = [op |-> "buildTrie", v |-> buildTrie(<<ret.v>>), err |-> <<>>]
    /\ prev' = <<ret.v>>
    /\ UNCHANGED <<input, query, maxDepth, aux>>

InitRaw ==
    /\ input \in [raw : RawStrings, maxLength : MaxLengths]
    /\ query = Include(<<>>)
    /\ maxDepth = 0
    /\ ret = NoCall
    /\ prev = <<>>
    /\ AuxInit

NextRaw == ParsePathCall \/ BuildTrieCall

SpecRaw == InitRaw /\ [][NextRaw]_vars

\* C28: under a maximum length M > 0 a raw path of more than M bytes gets
\* the ParseError at position 0 "path exceeds maximum length", whether it is
\* well-formed or not; a path of at most M bytes, and every path when
\* M <= 0, gets what the scanner makes of it: its segments or its error.
C28_MaxLengthCheckedBeforeScanning ==
    ret.op = "ParsePath" =>
        IF input.maxLength > 0 /\ Len(input.raw) > input.maxLength
        THEN ret.err = <<ParseError(input.raw, 0, "path exceeds maximum length")>>
        ELSE /\ ret.err = parse(input.raw).err
             /\ ret.err = <<>> => ret.v = [Segments |-> parse(input.raw).segments,
                                           Raw |-> input.raw]
             /\ ret.err # <<>> => ret.err[1].Message # "path exceeds maximum length"

\* A malformed path longer than the limit was refused for its length.
C28_Witness ==
    /\ ret.op = "ParsePath"
    /\ input.maxLength = RawLimit /\ Len(input.raw) > RawLimit
    /\ parse(input.raw).err # <<>>
    /\ ret.err = <<ParseError(input.raw, 0, "path exceeds maximum length")>>

\* A well-formed path longer than the limit was refused.
C28_WitnessWellFormed ==
    /\ ret.op = "ParsePath"
    /\ input.maxLength = RawLimit /\ Len(input.raw) > RawLimit
    /\ parse(input.raw).err = <<>>
    /\ ret.err # <<>>

\* A path of exactly the limit's length was parsed.
C28_WitnessExact ==
    /\ ret.op = "ParsePath"
    /\ input.maxLength = RawLimit /\ Len(input.raw) = RawLimit
    /\ ret.err = <<>> /\ Len(ret.v.Segments) = 1

\* Paths longer than RawLimit were parsed under the limits 0 and -1.
C28_WitnessDisabled ==
    /\ ret.op = "ParsePath"
    /\ input.maxLength <= 0 /\ Len(input.raw) = MaxRawLen
    /\ ret.err = <<>>

\* C29: a parse that succeeds returns one segment or more, each with one
\* selector or more; the empty string and "$" fail with "empty path", and
\* nothing else does; the root of the automaton built from a parsed path is
\* not accepting.
C29_ParsedPathsAreNonEmpty ==
    /\ (ret.op = "ParsePath" /\ ret.err = <<>>) =>
          /\ Len(ret.v.Segments) >= 1
          /\ \A i \in 1..Len(ret.v.Segments) : Len(ret.v.Segments[i].Selectors) >= 1
    /\ (ret.op = "ParsePath" /\ input.maxLength <= 0) =>
          (input.raw \in {<<>>, <<"$">>}
             <=> (ret.err # <<>> /\ ret.err[1].Message = "empty path"))
    /\ (ret.op = "ParsePath" /\ ret.err # <<>> /\ ret.err[1].Message = "empty path") =>
          ret.err[1] = ParseError(input.raw, Len(input.raw), "empty path")
    /\ ret.op = "buildTrie" => ~ret.v.nil /\ ~ret.v.accepting

\* "$" was refused as an empty path.
C29_Witness ==
    /\ ret.op = "ParsePath" /\ input.raw = <<"$">>
    /\ ret.err = <<ParseError(<<"$">>, 1, "empty path")>>

\* The empty string was refused as an empty path.
C29_WitnessEmptyString ==
    /\ ret.op = "ParsePath" /\ input.raw = <<>>
    /\ ret.err = <<ParseError(<<>>, 0, "empty path")>>

\* An automaton was built from a parsed path of two segments, one of them a
\* bracket: its root is not accepting and a state below it is.
C29_WitnessBuilt ==
    /\ ret.op = "buildTrie" /\ Len(prev[1].Segments) = 2
    /\ input.raw = <<"[", "0", "]", ".", "a">>
    /\ ~ret.v.accepting
    /\ ret.v.indexes[0].names[<<"a">>].accepting

\* ---------------------------------------------------------------------------
\* Integer literals in brackets.
\* ---------------------------------------------------------------------------

\* The digit strings of the literals: 0, 7, 42, 007, 2^30, 2^63 - 1 (the
\* largest int), 2^63, 2^64 - 1, 2^64, 2^64 + 7 and 2^65.
DigitStrings ==
    {<<"0">>,
     <<"7">>,
     <<"4", "2">>,
     <<"0", "0", "7">>,
     <<"1", "0", "7", "3", "7", "4", "1", "8", "2", "4">>,
     <<"9", "2", "2", "3", "3", "7", "2", "0", "3", "6", "8", "5", "4", "7", "7", "5", "8", "0", "7">>,
     <<"9", "2", "2", "3", "3", "7", "2", "0", "3", "6", "8", "5", "4", "7", "7", "5", "8", "0", "8">>,
     <<"1", "8", "4", "4", "6", "7", "4", "4", "0", "7", "3", "7", "0", "9", "5", "5", "1", "6", "1", "5">>,
     <<"1", "8", "4", "4", "6", "7", "4", "4", "0", "7", "3", "7", "0", "9", "5", "5", "1", "6", "1", "6">>,
     <<"1", "8", "4", "4", "6", "7", "4", "4", "0", "7", "3", "7", "0", "9", "5", "5", "1", "6", "2", "3">>,
     <<"3", "6", "8", "9", "3", "4", "8", "8", "1", "4", "7", "4", "1", "9", "1", "0", "3", "2", "3", "2">>}

\* The literals: a digit string, with a leading '-' or without.
Literals == DigitStrings \cup {<<"-">> \o d : d \in DigitStrings}

\* An optional literal: <<>> for none.
OptLiterals == {<<>>} \cup {<<l>> : l \in Literals}

Opt(l) == IF l = <<>> THEN <<>> ELSE l[1]

\* $[l], and $[start:end] or $[start:end:step] with the literals given
IndexPath(l) == <<"$", "[">> \o l \o <<"]">>

SlicePath(start, end, step) ==
    <<"$", "[">> \o Opt(start) \o <<":">> \o Opt(end)
      \o (IF step = <<>> THEN <<>> ELSE <<":">> \o step[1]) \o <<"]">>

InitInt ==
    /\ input \in {[raw |-> IndexPath(l), maxLength |-> MaxPathLength, form |-> "index",
                   lits |-> <<<<l>>>>] : l \in Literals}
                 \cup {[raw |-> SlicePath(s, e, st), maxLength |-> MaxPathLength,
                        form |-> "slice", lits |-> <<s, e, st>>] :
                          s \in OptLiterals, e \in OptLiterals, st \in OptLiterals}
    /\ query = Include(<<>>)
    /\ maxDepth = 0
    /\ ret = NoCall
    /\ prev = <<>>
    /\ AuxInit

NextInt == ParsePathCall

SpecInt == InitInt /\ [][NextInt]_vars

\* The digits of a literal, and whether it is negative.
DigitsOf(l) == IF l[1] = "-" THEN Tail(l) ELSE l

IsNegative(l) == l[1] = "-"

RECURSIVE Decimal(_, _)
\* The number the first i digits of ds write in base ten.
Decimal(ds, i) == IF i = 0 THEN 0 ELSE Decimal(ds, i - 1) * 10 + DigitVal(ds[i])

RECURSIVE Magnitude(_, _)
\* The number the first i digits of ds write, exactly, as limbs of a word
\* wide enough for every literal of the universe (128 bits).
Magnitude(ds, i) ==
    IF i = 0 THEN [j \in 1..8 |-> 0]
    ELSE mulAddLimbs(Magnitude(ds, i - 1), 1, DigitVal(ds[i]), <<>>)

\* The literal's value is one an int can hold: at most 2^63 - 1, and at
\* least -2^63.
FitsInt(l) ==
    Let(Magnitude(DigitsOf(l), Len(DigitsOf(l))), LAMBDA m :
        /\ \A j \in 5..8 : m[j] = 0
        /\ \/ m[4] < 2 ^ 15
           \/ IsNegative(l) /\ m[4] = 2 ^ 15 /\ \A j \in 1..3 : m[j] = 0)

\* The int that holds the value of a literal that fits.
ExactInt(l) ==
    Let(SubSeq(Magnitude(DigitsOf(l), Len(DigitsOf(l))), 1, 4), LAMBDA m :
        GoInt(IF IsNegative(l) THEN negLimbs(m, 1, 1, <<>>) ELSE m))

\* The field n of a selector (<<>> or <<int>>) holds exactly what the
\* optional literal l writes.
HoldsExactly(n, l) ==
    IF l = <<>> THEN n = <<>>
    ELSE /\ FitsInt(l[1])
         /\ n = <<ExactInt(l[1])>>
         /\ Len(DigitsOf(l[1])) <= 9 =>
               n[1] = (IF IsNegative(l[1]) THEN -1 ELSE 1)
                        * Decimal(DigitsOf(l[1]), Len(DigitsOf(l[1])))

\* The selector a parse of the input returned.
ParsedSelector == ret.v.Segments[1].Selectors[1]

\* C30: a path $[l] or $[start:end:step] of integer literals either fails
\* to parse, or parses to the one selector whose index, or whose start, end
\* and step, hold exactly the values the literals write.
C30_IntegerLiteralsExact ==
    (ret.op = "ParsePath" /\ "lits" \in DOMAIN input /\ ret.err = <<>>) =>
        /\ Len(ret.v.Segments) = 1 /\ Len(ret.v.Segments[1].Selectors) = 1
        /\ IF input.form = "index"
           THEN /\ ParsedSelector.t = "index"
                /\ HoldsExactly(<<ParsedSelector.Index>>, input.lits[1])
           ELSE /\ ParsedSelector.t = "slice"
                /\ HoldsExactly(ParsedSelector.Start, input.lits[1])
                /\ HoldsExactly(ParsedSelector.End, input.lits[2])
                /\ HoldsExactly(ParsedSelector.Step, input.lits[3])

\* The literals of the input all fit an int.
AllFit == \A i \in 1..Len(input.lits) : input.lits[i] = <<>> \/ FitsInt(input.lits[i][1])

\* Every parse of the universe succeeds.
C30_AlwaysParses == ret.op = "ParsePath" => ret.err = <<>>

\* Where every literal fits an int, the selector holds the exact values.
C30_ExactWhereFits == AllFit => C30_IntegerLiteralsExact

\* $[18446744073709551616] parsed to the index 0.
C30_WrappedToZero ==
    /\ ret.op = "ParsePath" /\ ret.err = <<>>
    /\ input.raw = IndexPath(<<"1", "8", "4", "4", "6", "7", "4", "4", "0", "7", "3", "7", "0", "9", "5", "5", "1", "6", "1", "6">>)
    /\ ParsedSelector = IndexSelector(0)

====
